---------------------------- MODULE Spec2Model ----------------------------
(***************************************************************************)
(* A model of wurp/go-oprf: the basic OPRF (package oprf), the threshold   *)
(* OPRF with Shamir sharing (package toprf) and the distributed key        *)
(* generation (package dkg).                                               *)
(*                                                                         *)
(* The ristretto255 group is a cyclic group of prime order L.  The model   *)
(* keeps the structure and scales the order down to the small prime Q:     *)
(* a scalar is a number in 0..Q-1, a group element is written as its       *)
(* discrete logarithm to a fixed generator (0 is the identity), so that    *)
(* element addition is addition mod Q and scalar multiplication is         *)
(* multiplication mod Q.  The base point is the element G.                 *)
(*                                                                         *)
(* A byte string that carries a scalar or an element is a record           *)
(* [len, val]: its length in bytes and the number its bytes encode.        *)
(* A 32-byte string is a canonical encoding iff val < Q; val = Q stands    *)
(* for every non-canonical 32-byte string.                                 *)
(***************************************************************************)
EXTENDS Integers, Sequences, FiniteSets, TLC

VARIABLES
    key,      \* oprf: the server's private key, as bytes
    input,    \* oprf: the client's input x, a sequence of bytes
    sess,     \* oprf: the client sessions run on (key, input)
    sh,       \* toprf: one trusted-dealer sharing and its use
    dkg,      \* dkg: one key generation ceremony
    vc,       \* dkg: one direct call of the verification functions
    tdh,      \* toprf: one threshold evaluation, by Evaluate or 3HashTDH
    call      \* one direct call of an operation on caller-supplied arguments

vars == <<key, input, sess, sh, dkg, vc, tdh, call>>

---------------------------------------------------------------------------
(* Bounds of the model *)

\* longest client input, in bytes
MaxInputLen == 1
\* largest number of share holders / participants of a sharing or ceremony
MaxN == 3
\* number of random tapes a ceremony is run on
MaxSeed == 3
\* largest amount a Byzantine dealer adds to a value it sends
MaxDelta == 2

---------------------------------------------------------------------------
(* The scalar field and the group (github.com/gtank/ristretto255) *)

\* order of the scalar field and of the group, scaled down
Q == 5
\* the base point, as its discrete logarithm
G == 2

Scalars == 0 .. (Q - 1)
Elements == 0 .. (Q - 1)

ScAdd(a, b) == (a + b) % Q
ScSub(a, b) == (a - b) % Q
ScMul(a, b) == (a * b) % Q

RECURSIVE ScPow(_, _)
ScPow(a, e) == IF e = 0 THEN 1 % Q ELSE ScMul(a, ScPow(a, e - 1))

\* Scalar.Invert: a^(L-2); the inverse of a non-zero scalar, and 0 for 0
ScInvert(a) == ScPow(a, Q - 2)

\* Element.Add, Element.ScalarMult, Element.ScalarBaseMult
ElAdd(p, q) == (p + q) % Q
ScalarMult(s, p) == (s * p) % Q
ScalarBaseMult(s) == ScalarMult(s, G)

\* the sum of f over the set S, of scalars and of elements
RECURSIVE ScSum(_, _)
ScSum(f, S) ==
    IF S = {} THEN 0
    ELSE LET x == CHOOSE y \in S : TRUE
         IN  ScAdd(f[x], ScSum(f, S \ {x}))

RECURSIVE ElSum(_, _)
ElSum(f, S) ==
    IF S = {} THEN 0
    ELSE LET x == CHOOSE y \in S : TRUE
         IN  ElAdd(f[x], ElSum(f, S \ {x}))

\* Scalar.FromUniformBytes: 64 uniform bytes, as the number they encode,
\* reduced into the field.  Every scalar, 0 included, is an outcome.
UniformBytes == 0 .. Q
ScalarFromUniformBytes(u) == u % Q

---------------------------------------------------------------------------
(* Byte strings *)

ScalarBytes == 32
ElementBytes == 32
HashBytes == 64
OPRF_BYTES == 64
sha512OutputBytes == 64
sha512BlockSize == 128
\* len(HashToGroupDST)
HashToGroupDSTLen == 43

Nil == [len |-> -1, val |-> 0]
Bytes(l, v) == [len |-> l, val |-> v]

\* Scalar.Encode / Element.Encode: the canonical 32 bytes
ScalarEncode(s) == Bytes(ScalarBytes, s)
ElementEncode(p) == Bytes(ElementBytes, p)

\* Scalar.Decode / Element.Decode: an error unless the bytes are canonical
DecodeOk(b) == b.len = 32 /\ b.val \in 0 .. (Q - 1)
DecodeVal(b) == b.val

\* binary.BigEndian.PutUint16(buf, uint16(v))
Uint16(v) == v % 65536

---------------------------------------------------------------------------
(* package oprf *)

\* SHA-512 over the bytes of a message, as a number: the model's stand-in
\* for the digest of the bytes written to the hash
RECURSIVE MsgDigest(_)
MsgDigest(msg) ==
    IF msg = <<>> THEN 0
    ELSE 1 + Head(msg) + (Head(msg) \div 8) + 5 * MsgDigest(Tail(msg))

\* expandMessageXMD(msg, dst, lenInBytes): the uniform bytes, as a number
expandMessageXMD(msg, dstLen, lenInBytes) ==
    LET ell == (lenInBytes + sha512OutputBytes - 1) \div sha512OutputBytes
    IN  IF ell > 255
        THEN [ok |-> FALSE, uniform |-> 0]
        ELSE [ok |-> TRUE,
              uniform |-> MsgDigest(msg) + Len(msg) + Uint16(lenInBytes)
                          + dstLen]

\* Element.FromUniformBytes: the one-way map onto the group.  The identity
\* has a negligible share of the preimages and is no outcome of the model.
ElementFromUniformBytes(u) == 1 + (u % (Q - 1))

\* hashToGroup(msg)
hashToGroup(msg) ==
    LET x == expandMessageXMD(msg, HashToGroupDSTLen, HashBytes)
    IN  IF ~x.ok
        THEN [ok |-> FALSE, el |-> 0]
        ELSE [ok |-> TRUE, el |-> ElementFromUniformBytes(x.uniform)]

OprfErr == [ok |-> FALSE, r |-> Nil, alpha |-> Nil]

\* Blind(input, blind): blind is Nil or the caller's bytes; rnd is what
\* rand.Read returns when the blind is drawn
Blind(inp, blind, rnd) ==
    LET h0 == hashToGroup(inp)
    IN  IF ~h0.ok THEN OprfErr
        ELSE IF blind # Nil
        THEN IF blind.len # ScalarBytes THEN OprfErr
             ELSE IF ~DecodeOk(blind) THEN OprfErr
             ELSE [ok |-> TRUE,
                   r |-> Bytes(blind.len, blind.val),
                   alpha |-> ElementEncode(ScalarMult(DecodeVal(blind), h0.el))]
        ELSE LET rScalar == ScalarFromUniformBytes(rnd)
             IN  [ok |-> TRUE,
                  r |-> ScalarEncode(rScalar),
                  alpha |-> ElementEncode(ScalarMult(rScalar, h0.el))]

BytesErr == [ok |-> FALSE, out |-> Nil]

\* Evaluate(k, alpha): beta = k * alpha
Evaluate(k, alpha) ==
    IF k.len # ScalarBytes THEN BytesErr
    ELSE IF alpha.len # ElementBytes THEN BytesErr
    ELSE IF ~DecodeOk(k) THEN BytesErr
    ELSE IF ~DecodeOk(alpha) THEN BytesErr
    ELSE [ok |-> TRUE,
          out |-> ElementEncode(ScalarMult(DecodeVal(k), DecodeVal(alpha)))]

\* Unblind(r, beta): n = (1/r) * beta
Unblind(r, beta) ==
    IF r.len # ScalarBytes THEN BytesErr
    ELSE IF beta.len # ElementBytes THEN BytesErr
    ELSE IF ~DecodeOk(r) THEN BytesErr
    ELSE IF ~DecodeOk(beta) THEN BytesErr
    ELSE LET rInv == ScInvert(DecodeVal(r))
         IN  [ok |-> TRUE,
              out |-> ElementEncode(ScalarMult(rInv, DecodeVal(beta)))]

NoOutput == <<>>

\* Finalize(input, n): SHA-512 of
\* len(input) || input || len(n) || n || "Finalize", lengths as uint16.
\* The digest is written as the tuple of the fields hashed.
Finalize(inp, n) ==
    IF n.len # ElementBytes THEN [ok |-> FALSE, out |-> NoOutput]
    ELSE [ok |-> TRUE,
          out |-> <<Uint16(Len(inp)), inp, Uint16(n.len), n.val, "Finalize">>]

\* KeyGen(): rnd is what rand.Read returns
KeyGen(rnd) == ScalarEncode(ScalarFromUniformBytes(rnd))

---------------------------------------------------------------------------
(* package toprf *)

ShareBytes == 33
PartBytes == 33
\* a uint8 holds 0 .. UInt8Max
UInt8Max == 255
U8(v) == v % (UInt8Max + 1)

\* the values the counter of  for i := uint8(1); i <= n; i++  takes, in
\* order: 1 .. n and, when n + 1 does not fit the type, the 0 that i++
\* wraps to, where i <= n holds again and the body runs once more
Uint8Counter(n) ==
    [k \in 1 .. (IF U8(n + 1) > n THEN n ELSE n + 1) |-> U8(k)]

\* Share{Index, Value}
Share(i, v) == [Index |-> i, Value |-> v]

\* scalarFromUint8(v): the byte v as a field element
scalarFromUint8(v) == v % Q

\* lcoeff(index, x, peers): the loop over peers, from position k on, and
\* the dividend and divisor it has accumulated when it ends
RECURSIVE lcoeffLoop(_, _, _, _, _, _)
lcoeffLoop(index, x, peers, k, dividend, divisor) ==
    IF k > Len(peers)
    THEN [dividend |-> dividend, divisor |-> divisor]
    ELSE IF peers[k] = index
    THEN lcoeffLoop(index, x, peers, k + 1, dividend, divisor)
    ELSE lcoeffLoop(index, x, peers, k + 1,
             ScMul(dividend,
                   ScSub(scalarFromUint8(peers[k]), scalarFromUint8(x))),
             ScMul(divisor,
                   ScSub(scalarFromUint8(peers[k]), scalarFromUint8(index))))

\* a variant of lcoeff whose loop starts one position late
lcoeff_SkipsFirstPeer(index, x, peers) ==
    LET p == lcoeffLoop(index, x, peers, 2,
                        scalarFromUint8(1), scalarFromUint8(1))
    IN  ScMul(p.dividend, ScInvert(p.divisor))

\* a variant of lcoeff that multiplies by the divisor itself
lcoeff_NoInvert(index, x, peers) ==
    LET p == lcoeffLoop(index, x, peers, 1,
                        scalarFromUint8(1), scalarFromUint8(1))
    IN  ScMul(p.dividend, p.divisor)

\* lcoeff: dividend.Multiply(dividend, divisor.Invert(divisor))
lcoeff(index, x, peers) ==
    LET p == lcoeffLoop(index, x, peers, 1,
                        scalarFromUint8(1), scalarFromUint8(1))
    IN  ScMul(p.dividend, ScInvert(p.divisor))

\* a variant of coeff that applies no Lagrange coefficient
coeff_One(index, peers) == scalarFromUint8(1)

\* coeff(index, peers)
coeff(index, peers) == lcoeff(index, 0, peers)

RECURSIVE InterpolateLoop(_, _, _, _, _)
InterpolateLoop(x, shares, indexes, k, result) ==
    IF k > Len(shares) THEN result
    ELSE InterpolateLoop(x, shares, indexes, k + 1,
             ScAdd(result,
                   ScMul(lcoeff(shares[k].Index, x, indexes),
                         shares[k].Value)))

\* a variant of InterpolateScalar that interpolates at 0 whatever x is
InterpolateScalar_AtZero(x, shares) ==
    IF Len(shares) = 0
    THEN [ok |-> FALSE, val |-> 0]
    ELSE [ok |-> TRUE,
          val |-> InterpolateLoop(0, shares,
                      [k \in 1 .. Len(shares) |-> shares[k].Index], 1, 0)]

\* InterpolateScalar(x, shares)
InterpolateScalar(x, shares) ==
    IF Len(shares) = 0
    THEN [ok |-> FALSE, val |-> 0]
    ELSE [ok |-> TRUE,
          val |-> InterpolateLoop(x, shares,
                      [k \in 1 .. Len(shares) |-> shares[k].Index], 1, 0)]

\* CreateShares: the inner loops, a[j] * x^(j+1) summed over j (0-based j)
RECURSIVE TermTimesX(_, _, _)
TermTimesX(term, x, times) ==
    IF times = 0 THEN term ELSE TermTimesX(ScMul(term, x), x, times - 1)

RECURSIVE ShareValueLoop(_, _, _, _, _)
ShareValueLoop(coeffs, threshold, x, j, value) ==
    IF ~(j < threshold - 1) THEN value
    ELSE ShareValueLoop(coeffs, threshold, x, j + 1,
             ScAdd(value, TermTimesX(ScMul(coeffs[j + 1], x), x, j)))

\* CreateShares: the loop  for i := uint8(1); i <= n; i++ .  shares[i-1]
\* is position U8(i - 1), 0-based, of a slice of length n: a counter value
\* whose position is outside the slice panics, otherwise position i - 1
\* holds the share of i.
CreateSharesLoop(secret, n, threshold, coeffs) ==
    LET visited == Uint8Counter(n)
    IN  IF \E k \in DOMAIN visited : U8(visited[k] - 1) >= n
        THEN [ok |-> FALSE, panic |-> TRUE, shares |-> <<>>]
        ELSE [ok |-> TRUE, panic |-> FALSE,
              shares |->
                 [k \in 1 .. n |->
                     Share(visited[k],
                           ShareValueLoop(coeffs, threshold,
                                          scalarFromUint8(visited[k]), 0,
                                          ScAdd(0, secret)))]]

\* CreateShares whose polynomial has no random coefficients
CreateShares_ZeroCoefficients(secret, n, threshold, rnd) ==
    IF threshold < 1 \/ n < threshold
    THEN [ok |-> FALSE, panic |-> FALSE, shares |-> <<>>]
    ELSE CreateSharesLoop(secret, n, threshold,
             [j \in 1 .. (threshold - 1) |-> 0])

\* CreateShares(secret, n, threshold); rnd[j] is what rand.Read returns for
\* the j-th coefficient
CreateShares(secret, n, threshold, rnd) ==
    IF threshold < 1 \/ n < threshold
    THEN [ok |-> FALSE, panic |-> FALSE, shares |-> <<>>]
    ELSE IF threshold > n
    THEN [ok |-> FALSE, panic |-> FALSE, shares |-> <<>>]
    ELSE CreateSharesLoop(secret, n, threshold,
             [j \in 1 .. (threshold - 1) |-> ScalarFromUniformBytes(rnd[j])])

\* Share.MarshalBinary that leaves data[0] at zero
ShareMarshal_NoIndex(s) ==
    [len |-> ShareBytes, index |-> 0, val |-> s.Value]

\* Share.MarshalBinary: index || value
ShareMarshal(s) == [len |-> ShareBytes, index |-> s.Index, val |-> s.Value]

\* Share.UnmarshalBinary on a zero Share: the error flag and the receiver
\* after the call; data is [len, index, val] with val the 32 value bytes
ShareUnmarshal(data) ==
    IF data.len # ShareBytes THEN [ok |-> FALSE, Index |-> 0, Value |-> 0]
    ELSE IF ~(data.val \in 0 .. (Q - 1))
    THEN [ok |-> FALSE, Index |-> data.index, Value |-> 0]
    ELSE [ok |-> TRUE, Index |-> data.index, Value |-> data.val]

\* Part.MarshalBinary: index || element
PartMarshal(index, el) == [len |-> PartBytes, index |-> index, val |-> el]

\* Part.UnmarshalBinary
PartUnmarshal(data) ==
    IF data.len # PartBytes THEN [ok |-> FALSE, Index |-> 0, Element |-> 0]
    ELSE IF ~(data.val \in 0 .. (Q - 1))
    THEN [ok |-> FALSE, Index |-> data.index, Element |-> 0]
    ELSE [ok |-> TRUE, Index |-> data.index, Element |-> data.val]

PartErr == [ok |-> FALSE, out |-> [len |-> 0, index |-> 0, val |-> 0]]

\* toprf.Evaluate with the share value in place of the adjusted key
ToprfEvaluate_RawShare(share, blinded, indexes) ==
    IF blinded.len # ElementBytes THEN PartErr
    ELSE IF ~DecodeOk(blinded) THEN PartErr
    ELSE [ok |-> TRUE,
          out |-> PartMarshal(share.Index,
                      ScalarMult(share.Value, DecodeVal(blinded)))]

\* toprf.Evaluate(share, blinded, indexes)
ToprfEvaluate(share, blinded, indexes) ==
    IF blinded.len # ElementBytes THEN PartErr
    ELSE LET c == coeff(share.Index, indexes)
             adjustedKey == ScMul(share.Value, c)
         IN  IF ~DecodeOk(blinded) THEN PartErr
             ELSE [ok |-> TRUE,
                   out |-> PartMarshal(share.Index,
                               ScalarMult(adjustedKey, DecodeVal(blinded)))]

\* ThresholdCombine: the sort of the parsed parts by index,
\*   for i { for j := i+1 .. { if parts[j].Index < parts[i].Index {swap} } }
Swap(parts, i, j) == [parts EXCEPT ![i] = parts[j], ![j] = parts[i]]

RECURSIVE SortInner(_, _, _)
SortInner(parts, i, j) ==
    IF j > Len(parts) THEN parts
    ELSE SortInner(IF parts[j].Index < parts[i].Index
                   THEN Swap(parts, i, j) ELSE parts, i, j + 1)

RECURSIVE SortParts(_, _)
SortParts(parts, i) ==
    IF i > Len(parts) - 1 THEN parts
    ELSE SortParts(SortInner(parts, i, i + 1), i + 1)

RECURSIVE SumElements(_, _, _)
SumElements(parts, k, result) ==
    IF k > Len(parts) THEN result
    ELSE SumElements(parts, k + 1, ElAdd(result, parts[k].Element))

\* ThresholdCombine that leaves the last of the sorted parts out of the sum
ThresholdCombine_DropsLast(responses) ==
    IF Len(responses) = 0 THEN BytesErr
    ELSE IF Len(responses) > 255 THEN BytesErr
    ELSE LET parts == [k \in 1 .. Len(responses) |->
                          PartUnmarshal(responses[k])]
         IN  IF \E k \in 1 .. Len(parts) : ~parts[k].ok THEN BytesErr
             ELSE [ok |-> TRUE,
                   out |-> ElementEncode(
                               SumElements(
                                   SubSeq(SortParts(parts, 1), 1,
                                          Len(parts) - 1), 1, 0))]

\* ThresholdCombine(responses)
ThresholdCombine(responses) ==
    IF Len(responses) = 0 THEN BytesErr
    ELSE IF Len(responses) > 255 THEN BytesErr
    ELSE LET parts == [k \in 1 .. Len(responses) |->
                          PartUnmarshal(responses[k])]
         IN  IF \E k \in 1 .. Len(parts) : ~parts[k].ok THEN BytesErr
             ELSE [ok |-> TRUE,
                   out |-> ElementEncode(
                               SumElements(SortParts(parts, 1), 1, 0))]

\* BLAKE2b-512 over  lenBuf || ssid || alpha , as a number: lenBuf is the
\* two length bytes, ssid a sequence of bytes, alpha the 32 raw bytes
Blake2b512(lenBuf, ssid, alpha) ==
    lenBuf + 3 * Len(ssid)
    + (IF Len(ssid) = 0 THEN 0 ELSE 7 * ssid[1] + ssid[Len(ssid)])
    + 11 * alpha.val

\* ThreeHashTDH: the two bytes PutUint16 writes for uint16(len(ssid))
lenBuf(ssid) == Uint16(Len(ssid))

\* ThreeHashTDH that leaves out the zero-share term
ThreeHashTDH_NoZeroShare(k, z, alpha, ssid) ==
    IF alpha.len # ElementBytes THEN PartErr
    ELSE IF ~DecodeOk(alpha) THEN PartErr
    ELSE [ok |-> TRUE,
          out |-> PartMarshal(k.Index, ScalarMult(k.Value, DecodeVal(alpha)))]

\* ThreeHashTDH that hashes the server's index along with ssid and alpha
ThreeHashTDH_HashesIndex(k, z, alpha, ssid) ==
    IF alpha.len # ElementBytes THEN PartErr
    ELSE IF ~DecodeOk(alpha) THEN PartErr
    ELSE LET beta == ScalarMult(k.Value, DecodeVal(alpha))
             hash == Blake2b512(Uint16(Len(ssid)) + k.Index, ssid, alpha)
             point == ElementFromUniformBytes(hash)
             h2 == ScalarMult(z.Value, point)
         IN  [ok |-> TRUE, out |-> PartMarshal(k.Index, ElAdd(beta, h2))]

\* ThreeHashTDH(k, z, alpha, ssid)
ThreeHashTDH(k, z, alpha, ssid) ==
    IF alpha.len # ElementBytes THEN PartErr
    ELSE IF ~DecodeOk(alpha) THEN PartErr
    ELSE LET beta == ScalarMult(k.Value, DecodeVal(alpha))
             hash == Blake2b512(lenBuf(ssid), ssid, alpha)
             point == ElementFromUniformBytes(hash)
             h2 == ScalarMult(z.Value, point)
         IN  [ok |-> TRUE, out |-> PartMarshal(k.Index, ElAdd(beta, h2))]

---------------------------------------------------------------------------
(* package dkg *)

\* randomScalar(): a uniform scalar from what rand.Read returns
randomScalar(rnd) == ScalarFromUniformBytes(rnd)

\* polynom(j, threshold, a): the share (j, a[0] + a[1] j + ... ) of the
\* polynomial with the coefficients a (a is 1-based here)
RECURSIVE polynomLoop(_, _, _, _, _)
polynomLoop(j, threshold, a, k, value) ==
    IF ~(k < threshold) THEN value
    ELSE polynomLoop(j, threshold, a, k + 1,
             ScAdd(value, ScMul(a[k + 1], ScPow(scalarFromUint8(j), k))))

polynom(j, threshold, a) == Share(j, polynomLoop(j, threshold, a, 0, 0))

\* Start: the loop  for j := uint8(1); j <= n; j++ .  shares[j-1] is
\* position U8(j - 1), 0-based, of a slice of length n: a counter value
\* whose position is outside the slice panics, otherwise position j - 1
\* holds polynom(j, threshold, a).
StartLoop(n, threshold, a) ==
    LET visited == Uint8Counter(n)
    IN  IF \E k \in DOMAIN visited : U8(visited[k] - 1) >= n
        THEN [ok |-> FALSE, panic |-> TRUE, shares |-> <<>>]
        ELSE [ok |-> TRUE, panic |-> FALSE,
              shares |-> [k \in 1 .. n |->
                             polynom(visited[k], threshold, a)]]

\* Start(n, threshold); rnd[k] is what rand.Read returns for a[k-1]
Start(n, threshold, rnd) ==
    IF threshold < 2 \/ threshold > n
    THEN [ok |-> FALSE, panic |-> FALSE, commitments |-> <<>>,
          shares |-> <<>>]
    ELSE LET a == [k \in 1 .. threshold |-> randomScalar(rnd[k])]
             commitments == [k \in 1 .. threshold |-> ScalarBaseMult(a[k])]
             l == StartLoop(n, threshold, a)
         IN  [ok |-> l.ok, panic |-> l.panic,
              commitments |-> IF l.ok THEN commitments ELSE <<>>,
              shares |-> l.shares]

\* VerifyCommitment: j^k by repeated multiplication
RECURSIVE jPow(_, _, _)
jPow(j, k, acc) == IF k = 0 THEN acc ELSE jPow(j, k - 1, ScMul(acc, j))

\* VerifyCommitment: the loop  for k := uint8(1); k < threshold; k++ ,
\* v1 the sum so far; commitments[k] is position k, 0-based
RECURSIVE VerifyLoop(_, _, _, _, _)
VerifyLoop(threshold, j, commitments, k, v1) ==
    IF ~(k < threshold) THEN [panic |-> FALSE, v1 |-> v1]
    ELSE IF k >= Len(commitments) THEN [panic |-> TRUE, v1 |-> 0]
    ELSE VerifyLoop(threshold, j, commitments, k + 1,
             ElAdd(v1, ScalarMult(jPow(j, k, scalarFromUint8(1)),
                                  commitments[k + 1])))

\* VerifyCommitment without the term of the last commitment
VerifyCommitment_DropsLastTerm(n, threshold, self, i, commitments, share) ==
    IF i = self THEN "ok"
    ELSE IF Len(commitments) = 0 THEN "panic"
    ELSE LET v0 == ScalarBaseMult(share.Value)
             l == VerifyLoop(threshold - 1, scalarFromUint8(self),
                             commitments, 1, commitments[1])
         IN  IF l.panic THEN "panic"
             ELSE IF ElementEncode(v0) # ElementEncode(l.v1) THEN "fail"
             ELSE "ok"

\* VerifyCommitment(n, threshold, self, i, commitments, share):
\* "ok" (nil), "fail" (the error) or "panic" (an index out of range)
VerifyCommitment(n, threshold, self, i, commitments, share) ==
    IF i = self THEN "ok"
    ELSE IF Len(commitments) = 0 THEN "panic"
    ELSE LET v0 == ScalarBaseMult(share.Value)
             l == VerifyLoop(threshold, scalarFromUint8(self), commitments,
                             1, commitments[1])
         IN  IF l.panic THEN "panic"
             ELSE IF ElementEncode(v0) # ElementEncode(l.v1) THEN "fail"
             ELSE "ok"

\* VerifyCommitments: the body of the loop for the counter value i:
\* "skip" (continue), "ok", "fail" (i is appended to fails) or "panic";
\* commitments[i-1], shares[i-1] are position U8(i - 1), 0-based
VerifyCommitmentsBody(n, threshold, self, commitments, shares, i) ==
    IF i = self THEN "skip"
    ELSE IF U8(i - 1) >= Len(commitments) \/ U8(i - 1) >= Len(shares)
    THEN "panic"
    ELSE VerifyCommitment(n, threshold, self, i,
                          commitments[U8(i - 1) + 1], shares[U8(i - 1) + 1])

\* VerifyCommitments: the loop  for i := uint8(1); i <= n; i++ .  A panic
\* of the body ends the call; a counter that wrapped without one never
\* leaves the loop (hang); otherwise the failing peers are returned in the
\* order of the counter.
VerifyCommitmentsLoop(n, threshold, self, commitments, shares) ==
    LET visited == Uint8Counter(n)
        Body(i) == VerifyCommitmentsBody(n, threshold, self, commitments,
                                         shares, i)
        Failed(i) == Body(i) = "fail"
    IN  IF \E k \in DOMAIN visited : Body(visited[k]) = "panic"
        THEN [panic |-> TRUE, hang |-> FALSE, fails |-> <<>>]
        ELSE IF Len(visited) > n
        THEN [panic |-> FALSE, hang |-> TRUE, fails |-> <<>>]
        ELSE [panic |-> FALSE, hang |-> FALSE,
              fails |-> SelectSeq(visited, Failed)]

\* VerifyCommitments that stops before the last peer
VerifyCommitments_SkipsLastPeer(n, threshold, self, commitments, shares) ==
    VerifyCommitmentsLoop(n - 1, threshold, self, commitments, shares)

\* VerifyCommitments(n, threshold, self, commitments, shares)
VerifyCommitments(n, threshold, self, commitments, shares) ==
    VerifyCommitmentsLoop(n, threshold, self, commitments, shares)

\* Finish: the loop over the received shares, from position k on
RECURSIVE FinishLoop(_, _, _, _)
FinishLoop(shares, self, k, result) ==
    IF k > Len(shares) THEN [ok |-> TRUE, share |-> Share(self, result)]
    ELSE IF shares[k].Index # self
    THEN [ok |-> FALSE, share |-> Share(0, 0)]
    ELSE FinishLoop(shares, self, k + 1, ScAdd(result, shares[k].Value))

\* Finish that leaves out the first share of the list
Finish_DropsFirst(shares, self) == FinishLoop(shares, self, 2, 0)

\* Finish that adds the values whatever the indices
Finish_NoIndexCheck(shares, self) ==
    [ok |-> TRUE,
     share |-> Share(self, ScSum([k \in DOMAIN shares |-> shares[k].Value],
                                 DOMAIN shares))]

\* Finish(shares, self)
Finish(shares, self) == FinishLoop(shares, self, 1, 0)

\* Reconstruct(shares)
Reconstruct(shares) ==
    IF Len(shares) = 0 THEN [ok |-> FALSE, val |-> 0]
    ELSE InterpolateScalar(0, shares)

---------------------------------------------------------------------------
(* Values of the parts of the state that a specification does not use *)

ShIdle == [pc |-> "idle"]
DkgIdle == [pc |-> "idle"]
VcIdle == [pc |-> "idle"]
TdhIdle == [pc |-> "idle"]
CallIdle == [pc |-> "idle"]

---------------------------------------------------------------------------
(* The basic OPRF: a server key, a client input, and two client sessions   *)
(* that each run Blind -> Evaluate -> Unblind -> Finalize on them.         *)

Sessions == {1, 2}

InputByte == {0, 90}
Inputs == UNION {[1 .. l -> InputByte] : l \in 0 .. MaxInputLen}

\* what a caller may pass as the blind: nothing, 32 bytes (canonical or
\* not), or a string of another length
BlindArgs ==
    {Nil} \cup {Bytes(ScalarBytes, v) : v \in 0 .. Q}
          \cup {Bytes(ScalarBytes - 1, 0)}

SessNew ==
    [pc |-> "new", blind |-> Nil, r |-> Nil, alpha |-> Nil, beta |-> Nil,
     n |-> Nil, out |-> NoOutput]

InitOPRF ==
    /\ key \in {KeyGen(u) : u \in UniformBytes}
    /\ input \in Inputs
    /\ sess = [s \in Sessions |-> SessNew]
    /\ sh = ShIdle
    /\ dkg = DkgIdle
    /\ vc = VcIdle
    /\ tdh = TdhIdle
    /\ call = CallIdle

\* the client calls Blind(input, blind)
ClientBlind(s) ==
    /\ sess[s].pc = "new"
    /\ \E blind \in BlindArgs, rnd \in UniformBytes :
          LET b == Blind(input, blind, rnd)
          IN  sess' = [sess EXCEPT ![s] =
                  IF b.ok
                  THEN [@ EXCEPT !.pc = "blinded", !.blind = blind,
                                 !.r = b.r, !.alpha = b.alpha]
                  ELSE [@ EXCEPT !.pc = "failed", !.blind = blind]]
    /\ UNCHANGED <<key, input, sh, dkg, vc, tdh, call>>

\* the server calls Evaluate(key, alpha)
ServerEvaluate(s) ==
    /\ sess[s].pc = "blinded"
    /\ LET e == Evaluate(key, sess[s].alpha)
       IN  sess' = [sess EXCEPT ![s] =
               IF e.ok THEN [@ EXCEPT !.pc = "evaluated", !.beta = e.out]
               ELSE [@ EXCEPT !.pc = "failed"]]
    /\ UNCHANGED <<key, input, sh, dkg, vc, tdh, call>>

\* the client calls Unblind(r, beta)
ClientUnblind(s) ==
    /\ sess[s].pc = "evaluated"
    /\ LET u == Unblind(sess[s].r, sess[s].beta)
       IN  sess' = [sess EXCEPT ![s] =
               IF u.ok THEN [@ EXCEPT !.pc = "unblinded", !.n = u.out]
               ELSE [@ EXCEPT !.pc = "failed"]]
    /\ UNCHANGED <<key, input, sh, dkg, vc, tdh, call>>

\* the client calls Finalize(input, n)
ClientFinalize(s) ==
    /\ sess[s].pc = "unblinded"
    /\ LET f == Finalize(input, sess[s].n)
       IN  sess' = [sess EXCEPT ![s] =
               IF f.ok THEN [@ EXCEPT !.pc = "done", !.out = f.out]
               ELSE [@ EXCEPT !.pc = "failed"]]
    /\ UNCHANGED <<key, input, sh, dkg, vc, tdh, call>>

NextOPRF ==
    \E s \in Sessions :
        \/ ClientBlind(s)
        \/ ServerEvaluate(s)
        \/ ClientUnblind(s)
        \/ ClientFinalize(s)

SpecOPRF == InitOPRF /\ [][NextOPRF]_vars

\* the OPRF output of (key, input): Finalize(x, k * hash_to_group(x))
DirectOutput ==
    Finalize(input,
             ElementEncode(ScalarMult(DecodeVal(key),
                                      hashToGroup(input).el))).out

\* session s ran to the end on a blind the caller supplied
DoneSupplied(s) == sess[s].pc = "done" /\ sess[s].blind # Nil

\* C1: for every key, input and caller-supplied blind that Blind accepts,
\* Blind -> Evaluate -> Unblind -> Finalize returns
\* Finalize(x, k * hash_to_group(x)).
C1_RoundTrip ==
    \A s \in Sessions : DoneSupplied(s) => sess[s].out = DirectOutput

\* C2: for a fixed key and input and two distinct blinds that Blind
\* accepts, the blinded elements differ and the final outputs are equal.
C2_BlindIndependence ==
    \A s1, s2 \in Sessions :
        (DoneSupplied(s1) /\ DoneSupplied(s2) /\ sess[s1].r # sess[s2].r)
            => /\ sess[s1].alpha # sess[s2].alpha
               /\ sess[s1].out = sess[s2].out

\* C23: the key KeyGen returns, and the blind r that Blind draws when the
\* caller supplies none, is the canonical encoding of a non-zero scalar,
\* whatever the random source returns.
C23_NonZeroScalars ==
    /\ DecodeOk(key)
    /\ DecodeVal(key) # 0
    /\ \A s \in Sessions :
          (sess[s].pc = "blinded" /\ sess[s].blind = Nil) =>
              DecodeOk(sess[s].r) /\ DecodeVal(sess[s].r) # 0

---------------------------------------------------------------------------
(* The trusted-dealer sharing: CreateShares(secret, n, t), then either an  *)
(* interpolation over some of the shares, or a threshold evaluation in     *)
(* which the servers of a peer set answer in any order and the client      *)
(* combines the answers.                                                   *)

\* the sequences without repetition over the set S, by length
InjSeqs(S, lens) ==
    {q \in UNION {[1 .. l -> S] : l \in lens} :
        \A a, b \in DOMAIN q : a # b => q[a] # q[b]}

Perms(S) == InjSeqs(S, {Cardinality(S)})

\* the members of a set of numbers in ascending and in descending order
RECURSIVE AscSeq(_)
AscSeq(S) ==
    IF S = {} THEN <<>>
    ELSE LET m == CHOOSE x \in S : \A y \in S : x <= y
         IN  <<m>> \o AscSeq(S \ {m})

DescSeq(S) ==
    LET a == AscSeq(S) IN [k \in DOMAIN a |-> a[Len(a) + 1 - k]]

\* blinded elements a client may send: two elements and a string that is
\* no canonical encoding
AlphaArgs == {ElementEncode(1), ElementEncode(G), Bytes(ElementBytes, Q)}

NoPart == [len |-> 0, index |-> 0, val |-> 0]

InitShamir ==
    /\ \E secret \in Scalars, n \in 1 .. MaxN, t \in 0 .. (MaxN + 1) :
          sh = [pc |-> "new", secret |-> secret, n |-> n, t |-> t]
    /\ key = Nil
    /\ input = <<>>
    /\ sess = <<>>
    /\ dkg = DkgIdle
    /\ vc = VcIdle
    /\ tdh = TdhIdle
    /\ call = CallIdle

\* the dealer calls CreateShares(secret, n, t)
DealerCreateShares ==
    /\ sh.pc = "new"
    /\ \E rnd \in [1 .. (sh.t - 1) -> UniformBytes] :
          LET c == CreateShares(sh.secret, sh.n, sh.t, rnd)
          IN  sh' = IF c.ok
                    THEN [pc |-> "shared", secret |-> sh.secret, n |-> sh.n,
                          t |-> sh.t, shares |-> c.shares]
                    ELSE [pc |-> "rejected", secret |-> sh.secret,
                          n |-> sh.n, t |-> sh.t]
    /\ UNCHANGED <<key, input, sess, dkg, vc, tdh, call>>

\* a caller interpolates at 0 over some of the shares, listed in any order
CallInterpolate ==
    /\ sh.pc = "shared"
    /\ \E idx \in InjSeqs(1 .. sh.n, 1 .. sh.n) :
          LET sel == [k \in DOMAIN idx |-> sh.shares[idx[k]]]
          IN  sh' = [pc |-> "interpolated", secret |-> sh.secret,
                     n |-> sh.n, t |-> sh.t, shares |-> sh.shares,
                     sel |-> sel,
                     rec |-> InterpolateScalar(0, sel),
                     recD |-> Reconstruct(sel)]
    /\ UNCHANGED <<key, input, sess, dkg, vc, tdh, call>>

\* a client sends alpha to the servers of the peer set P
ClientAsk ==
    /\ sh.pc = "shared"
    /\ \E P \in (SUBSET (1 .. sh.n)) \ {{}}, alpha \in AlphaArgs :
          sh' = [pc |-> "serving", secret |-> sh.secret, n |-> sh.n,
                 t |-> sh.t, shares |-> sh.shares, peers |-> P,
                 alpha |-> alpha, resp |-> [i \in P |-> NoPart]]
    /\ UNCHANGED <<key, input, sess, dkg, vc, tdh, call>>

\* server i calls Evaluate(share_i, alpha, peers), the peers listed in
\* ascending or in descending order
ServerPart(i) ==
    /\ sh.pc = "serving"
    /\ i \in sh.peers
    /\ sh.resp[i] = NoPart
    /\ \E indexes \in {AscSeq(sh.peers), DescSeq(sh.peers)} :
          LET e == ToprfEvaluate(sh.shares[i], sh.alpha, indexes)
          IN  sh' = IF e.ok
                    THEN [sh EXCEPT !.resp[i] = e.out]
                    ELSE [sh EXCEPT !.pc = "failed"]
    /\ UNCHANGED <<key, input, sess, dkg, vc, tdh, call>>

\* the client calls ThresholdCombine on the answers, in any order
ClientCombine ==
    /\ sh.pc = "serving"
    /\ \A i \in sh.peers : sh.resp[i] # NoPart
    /\ \E order \in Perms(sh.peers) :
          sh' = [pc |-> "combined", secret |-> sh.secret, n |-> sh.n,
                 t |-> sh.t, shares |-> sh.shares, peers |-> sh.peers,
                 alpha |-> sh.alpha, resp |-> sh.resp,
                 beta |-> ThresholdCombine(
                              [k \in DOMAIN order |-> sh.resp[order[k]]])]
    /\ UNCHANGED <<key, input, sess, dkg, vc, tdh, call>>

NextShamir ==
    \/ DealerCreateShares
    \/ CallInterpolate
    \/ ClientAsk
    \/ \E i \in 1 .. MaxN : ServerPart(i)
    \/ ClientCombine

SpecShamir == InitShamir /\ [][NextShamir]_vars

\* C3: for shares of CreateShares(k, n, t) and a peer set P of size
\* exactly t, the combination of the t parts Evaluate(share_i, alpha, P)
\* is the beta of the basic Evaluate(k, alpha).
C3_ThresholdCorrect ==
    (sh.pc = "combined" /\ Cardinality(sh.peers) = sh.t)
        => /\ sh.beta.ok
           /\ sh.beta = Evaluate(ScalarEncode(sh.secret), sh.alpha)

\* a 2-of-3 (or larger) evaluation by a peer set that is not the first t
\* servers, with a result that is not the identity
C3_Witness ==
    /\ sh.pc = "combined"
    /\ Cardinality(sh.peers) = sh.t
    /\ sh.t >= 2
    /\ sh.n > sh.t
    /\ sh.peers # 1 .. sh.t
    /\ sh.beta.ok
    /\ sh.beta.out.val # 0

\* C4: InterpolateScalar(0, S) and Reconstruct(S) return the secret for
\* every list S of at least t shares of CreateShares(secret, n, t) with
\* distinct indices, in any order.
C4_ShamirRecovery ==
    (sh.pc = "interpolated" /\ Len(sh.sel) >= sh.t)
        => /\ sh.rec.ok
           /\ sh.rec.val = sh.secret
           /\ sh.recD = sh.rec

\* more than t >= 2 shares, not listed in ascending order, of a non-zero
\* secret
C4_Witness ==
    /\ sh.pc = "interpolated"
    /\ sh.t >= 2
    /\ Len(sh.sel) > sh.t
    /\ sh.sel[1].Index > sh.sel[2].Index
    /\ sh.secret # 0
    /\ sh.rec.val = sh.secret

\* C24: whatever t - 1 of the shares of CreateShares(secret, n, t) someone
\* holds, for every candidate secret there are coefficients with which
\* CreateShares gives exactly these t - 1 shares: they exclude no secret.
C24_ShamirPrivacy ==
    sh.pc = "shared" =>
        \A S \in SUBSET (1 .. sh.n) :
            Cardinality(S) = sh.t - 1 =>
                \A candidate \in Scalars :
                    \E rnd \in [1 .. (sh.t - 1) -> UniformBytes] :
                        LET c == CreateShares(candidate, sh.n, sh.t, rnd)
                        IN  /\ c.ok
                            /\ \A i \in S : c.shares[i] = sh.shares[i]

\* C24 witness: shares of a non-zero secret with a threshold of 2 or more
\* below n, not all of the same value
C24_Witness ==
    /\ sh.pc = "shared"
    /\ sh.t >= 2
    /\ sh.n > sh.t
    /\ sh.secret # 0
    /\ sh.shares[1].Value # sh.shares[2].Value

---------------------------------------------------------------------------
(* The key generation ceremony: n participants, each a dealer (Start) and   *)
(* a recipient (VerifyCommitments, Finish) of the others' shares; one of    *)
(* them may be Byzantine.  The final shares are then used: a caller         *)
(* reconstructs the secret from t of them, or t of the participants serve   *)
(* a threshold evaluation.                                                  *)

\* what rand.Read returns to dealer p for its coefficient a[k-1]: one
\* random tape per ceremony seed and dealer
DealerTape(seed, p, threshold) ==
    [k \in 1 .. threshold |-> (seed + p * k + seed * p) % (Q + 1)]

NoStart == [ok |-> FALSE, panic |-> FALSE, commitments |-> <<>>,
            shares |-> <<>>]
NoFinal == [ok |-> FALSE, share |-> Share(0, 0)]
NoSecret == [ok |-> FALSE, val |-> 0]

\* what a Byzantine dealer may send in place of the output h of Start: one
\* share with another value, one commitment replaced, one share with
\* another index, or the shares of a polynomial of its own choice
ByzOutputs(n, threshold, h) ==
    {[h EXCEPT !.shares[j].Value = ScAdd(@, d)] :
        j \in 1 .. n, d \in 1 .. MaxDelta}
    \cup {[h EXCEPT !.commitments[k] = ElAdd(@, d)] :
             k \in 1 .. threshold, d \in 1 .. MaxDelta}
    \cup {[h EXCEPT !.shares[j].Index = U8(j + 1)] : j \in 1 .. n}
    \cup {Start(n, threshold, [k \in 1 .. threshold |-> d]) :
             d \in 1 .. MaxDelta}

InitDKG ==
    /\ \E n \in 1 .. MaxN, t \in 1 .. MaxN, seed \in 0 .. MaxSeed :
          dkg = [pc |-> "run", n |-> n, t |-> t, seed |-> seed, byz |-> 0,
                 started |-> {}, out |-> [p \in 1 .. n |-> NoStart],
                 verified |-> {}, fails |-> [p \in 1 .. n |-> <<>>],
                 finished |-> {}, final |-> [p \in 1 .. n |-> NoFinal],
                 chk |-> [j |-> 0, i |-> 0, res |-> "none"],
                 sel |-> <<>>, rec |-> NoSecret,
                 peers |-> {}, alpha |-> Nil, beta |-> BytesErr]
    /\ key = Nil
    /\ input = <<>>
    /\ sess = <<>>
    /\ sh = ShIdle
    /\ vc = VcIdle
    /\ tdh = TdhIdle
    /\ call = CallIdle

\* the participants that follow the protocol
Honest == (1 .. dkg.n) \ {dkg.byz}

\* every dealer has dealt, and so every share is with its recipient
AllDealt ==
    /\ dkg.started = 1 .. dkg.n
    /\ \A p \in 1 .. dkg.n : dkg.out[p].ok

\* dealer p runs Start(n, t), broadcasts the commitments and sends share j
\* to participant j
DStart(p) ==
    /\ dkg.pc = "run"
    /\ p \in (1 .. dkg.n) \ dkg.started
    /\ dkg' = [dkg EXCEPT
                 !.started = @ \cup {p},
                 !.out[p] = Start(dkg.n, dkg.t,
                                  DealerTape(dkg.seed, p, dkg.t))]
    /\ UNCHANGED <<key, input, sess, sh, vc, tdh, call>>

\* dealer p is Byzantine
ByzStart(p) ==
    /\ dkg.pc = "run"
    /\ dkg.byz = 0
    /\ p \in (1 .. dkg.n) \ dkg.started
    /\ LET h == Start(dkg.n, dkg.t, DealerTape(dkg.seed, p, dkg.t))
       IN  /\ h.ok
           /\ \E b \in ByzOutputs(dkg.n, dkg.t, h) :
                 dkg' = [dkg EXCEPT !.started = @ \cup {p},
                                    !.byz = p,
                                    !.out[p] = b]
    /\ UNCHANGED <<key, input, sess, sh, vc, tdh, call>>

\* participant j checks the share of dealer i on its own
DVerifyOne(j, i) ==
    /\ dkg.pc = "run"
    /\ AllDealt
    /\ dkg.verified = {}
    /\ dkg.finished = {}
    /\ j \in Honest
    /\ i \in 1 .. dkg.n
    /\ dkg' = [dkg EXCEPT
                 !.pc = "checked",
                 !.chk = [j |-> j, i |-> i,
                          res |-> VerifyCommitment(dkg.n, dkg.t, j, i,
                                      dkg.out[i].commitments,
                                      dkg.out[i].shares[j])]]
    /\ UNCHANGED <<key, input, sess, sh, vc, tdh, call>>

\* participant j verifies what it received from all the dealers
DVerify(j) ==
    /\ dkg.pc = "run"
    /\ AllDealt
    /\ j \in Honest \ dkg.verified
    /\ LET r == VerifyCommitments(dkg.n, dkg.t, j,
                    [i \in 1 .. dkg.n |-> dkg.out[i].commitments],
                    [i \in 1 .. dkg.n |-> dkg.out[i].shares[j]])
       IN  dkg' = IF r.panic \/ r.hang
                  THEN [dkg EXCEPT !.pc = "panic"]
                  ELSE [dkg EXCEPT !.verified = @ \cup {j},
                                   !.fails[j] = r.fails]
    /\ UNCHANGED <<key, input, sess, sh, vc, tdh, call>>

\* participant j calls Finish on the n shares it received, listed by
\* dealer in ascending or in descending order
DFinish(j) ==
    /\ dkg.pc = "run"
    /\ AllDealt
    /\ j \in Honest \ dkg.finished
    /\ \E order \in {AscSeq(1 .. dkg.n), DescSeq(1 .. dkg.n)} :
          dkg' = [dkg EXCEPT
                    !.finished = @ \cup {j},
                    !.final[j] = Finish([k \in 1 .. dkg.n |->
                                            dkg.out[order[k]].shares[j]], j)]
    /\ UNCHANGED <<key, input, sess, sh, vc, tdh, call>>

\* every participant that follows the protocol has verified and finished
AllDone == dkg.verified = Honest /\ dkg.finished = Honest

\* a caller reconstructs the secret from t of the final shares, in any order
DReconstruct ==
    /\ dkg.pc = "run"
    /\ AllDealt
    /\ AllDone
    /\ \E S \in InjSeqs({j \in Honest : dkg.final[j].ok}, {dkg.t}) :
          LET sel == [k \in DOMAIN S |-> dkg.final[S[k]].share]
          IN  dkg' = [dkg EXCEPT !.pc = "reconstructed",
                                 !.sel = sel,
                                 !.rec = Reconstruct(sel)]
    /\ UNCHANGED <<key, input, sess, sh, vc, tdh, call>>

\* t of the participants serve a client: each calls toprf.Evaluate with its
\* final share, the client combines the parts
DServe ==
    /\ dkg.pc = "run"
    /\ AllDealt
    /\ AllDone
    /\ dkg.byz = 0
    /\ \A j \in 1 .. dkg.n : dkg.fails[j] = <<>> /\ dkg.final[j].ok
    /\ \E P \in SUBSET (1 .. dkg.n), alpha \in AlphaArgs :
          /\ Cardinality(P) = dkg.t
          /\ \E indexes \in {AscSeq(P), DescSeq(P)}, order \in Perms(P) :
                LET e == [i \in P |-> ToprfEvaluate(dkg.final[i].share,
                                                    alpha, indexes)]
                IN  dkg' = [dkg EXCEPT
                              !.pc = "served",
                              !.peers = P,
                              !.alpha = alpha,
                              !.beta =
                                 IF \E i \in P : ~e[i].ok THEN BytesErr
                                 ELSE ThresholdCombine(
                                          [k \in DOMAIN order |->
                                              e[order[k]].out])]
    /\ UNCHANGED <<key, input, sess, sh, vc, tdh, call>>

NextDKG ==
    \/ \E p \in 1 .. MaxN : DStart(p)
    \/ \E p \in 1 .. MaxN : ByzStart(p)
    \/ \E j, i \in 1 .. MaxN : DVerifyOne(j, i)
    \/ \E j \in 1 .. MaxN : DVerify(j)
    \/ \E j \in 1 .. MaxN : DFinish(j)
    \/ DReconstruct
    \/ DServe

SpecDKG == InitDKG /\ [][NextDKG]_vars

\* the dealers' constant terms a_p[0], summed
GroupSecret ==
    ScSum([p \in 1 .. dkg.n |->
              randomScalar(DealerTape(dkg.seed, p, dkg.t)[1])], 1 .. dkg.n)

\* the final shares of the participants listed in S
FinalShares(S) == [k \in DOMAIN S |-> dkg.final[S[k]].share]

\* sum over k in 0 .. t-1 of (j^k) * commitments[k]
CommitSum(commitments, j) ==
    ElSum([k \in DOMAIN commitments |->
              ScalarMult(ScPow(scalarFromUint8(j), k - 1), commitments[k])],
          DOMAIN commitments)

\* the scalar an element commits to, and the committed polynomial at j
DLog(e) == CHOOSE a \in Scalars : ScalarBaseMult(a) = e

CommittedAt(commitments, j) ==
    ScSum([k \in DOMAIN commitments |->
              ScMul(DLog(commitments[k]),
                    ScPow(scalarFromUint8(j), k - 1))],
          DOMAIN commitments)

\* the share dealer i sent to participant j does not match i's commitments
Inconsistent(i, j) ==
    ScalarBaseMult(dkg.out[i].shares[j].Value)
        # CommitSum(dkg.out[i].commitments, j)

\* C5: after a ceremony in which every participant ran Start, every
\* VerifyCommitments returned the empty list and every participant called
\* Finish, in whatever order, every list of t final shares reconstructs the
\* same secret, the sum of the dealers' constant terms.
C5_DKGConsistent ==
    (/\ dkg.pc = "reconstructed"
     /\ dkg.byz = 0
     /\ \A j \in 1 .. dkg.n : dkg.fails[j] = <<>>)
        => /\ dkg.rec.ok
           /\ dkg.rec.val = GroupSecret
           /\ \A S \in InjSeqs(1 .. dkg.n, {dkg.t}) :
                 Reconstruct(FinalShares(S)) = dkg.rec

\* a ceremony with more participants than the threshold whose secret is
\* not zero, reconstructed from final shares that are not those of the
\* first t participants and are not listed in ascending order
C5_Witness ==
    /\ dkg.pc = "reconstructed"
    /\ dkg.byz = 0
    /\ dkg.n > dkg.t
    /\ \A j \in 1 .. dkg.n : dkg.fails[j] = <<>>
    /\ dkg.sel[1].Index > dkg.sel[2].Index
    /\ dkg.sel[1].Index > dkg.t
    /\ dkg.rec.ok
    /\ dkg.rec.val # 0

\* C6: for a dealer i other than the recipient j, VerifyCommitment
\* succeeds exactly when base * share.value is the sum of (j^k) *
\* commitments[k]; the share Start dealt to j verifies, and a share whose
\* value is not the committed polynomial at j is rejected.
C6_CommitmentCheck ==
    (dkg.pc = "checked" /\ dkg.chk.i # dkg.chk.j)
        => LET o == dkg.out[dkg.chk.i]
               j == dkg.chk.j
           IN  /\ dkg.chk.res \in {"ok", "fail"}
               /\ (dkg.chk.res = "ok")
                     <=> (ScalarBaseMult(o.shares[j].Value)
                              = CommitSum(o.commitments, j))
               /\ (dkg.chk.i # dkg.byz) => dkg.chk.res = "ok"
               /\ (o.shares[j].Value # CommittedAt(o.commitments, j))
                     => dkg.chk.res = "fail"

\* a share with another value than the dealt one is checked and rejected,
\* with a threshold above two
C6_Witness ==
    /\ dkg.pc = "checked"
    /\ dkg.chk.i # dkg.chk.j
    /\ dkg.chk.i = dkg.byz
    /\ dkg.t > 2
    /\ dkg.out[dkg.byz].commitments
          = Start(dkg.n, dkg.t,
                  DealerTape(dkg.seed, dkg.byz, dkg.t)).commitments
    /\ dkg.chk.res = "fail"

\* C8: a participant that follows the protocol lists every dealer whose
\* share to it does not match that dealer's commitments; and when all
\* these lists are empty, every list of t of the final shares of the
\* participants that follow the protocol reconstructs the same secret,
\* the one the broadcast commitments commit to.
C8_ByzantineDetected ==
    /\ \A j \in dkg.verified : \A i \in (1 .. dkg.n) \ {j} :
          Inconsistent(i, j) => \E k \in DOMAIN dkg.fails[j] :
                                    dkg.fails[j][k] = i
    /\ (/\ dkg.pc = "reconstructed"
        /\ \A j \in Honest : dkg.fails[j] = <<>>)
          => /\ dkg.rec.ok
             /\ \A S \in InjSeqs({j \in Honest : dkg.final[j].ok},
                                 {dkg.t}) :
                   Reconstruct(FinalShares(S)) = dkg.rec
             /\ (\A j \in Honest : dkg.final[j].ok)
                   => ScalarBaseMult(dkg.rec.val)
                         = ElSum([p \in 1 .. dkg.n |->
                                     dkg.out[p].commitments[1]],
                                 1 .. dkg.n)

\* a Byzantine dealer sent one participant a share that does not match:
\* that participant lists the dealer, another participant lists nobody
C8_Witness ==
    /\ dkg.byz # 0
    /\ \E j1, j2 \in dkg.verified :
          /\ Inconsistent(dkg.byz, j1)
          /\ dkg.fails[j1] = <<dkg.byz>>
          /\ dkg.fails[j2] = <<>>

\* C10: after a successful (n, t) ceremony with the group secret s, the
\* parts toprf.Evaluate(final_share_i, alpha, P) of the members of a peer
\* set P of size t combine to the beta of the basic Evaluate(s, alpha).
C10_DKGSharesServe ==
    dkg.pc = "served"
        => dkg.beta = Evaluate(ScalarEncode(GroupSecret), dkg.alpha)

\* a peer set that is not the first t participants answered with an
\* element that is not the identity
C10_Witness ==
    /\ dkg.pc = "served"
    /\ dkg.n > dkg.t
    /\ dkg.peers # 1 .. dkg.t
    /\ dkg.beta.ok
    /\ dkg.beta.out.val # 0
    /\ GroupSecret # 0

\* C29: after a ceremony of honest dealers, base * final_j of every
\* participant j that has finished is the sum over the dealers p and
\* k in 0 .. t-1 of (j^k) * C_p[k], and the sum of the dealers' first
\* commitments C_p[0] is base * (the secret reconstructed from t of the
\* Finish outputs), whichever t they are.
C29_PublicKey ==
    (dkg.pc \in {"run", "reconstructed"} /\ dkg.byz = 0 /\ AllDealt)
        => /\ \A j \in dkg.finished :
                 /\ dkg.final[j].ok
                 /\ ScalarBaseMult(dkg.final[j].share.Value)
                       = ElSum([p \in 1 .. dkg.n |->
                                   CommitSum(dkg.out[p].commitments, j)],
                               1 .. dkg.n)
           /\ dkg.pc = "reconstructed" =>
                 /\ dkg.rec.ok
                 /\ ElSum([p \in 1 .. dkg.n |-> dkg.out[p].commitments[1]],
                          1 .. dkg.n)
                       = ScalarBaseMult(dkg.rec.val)

\* C29 witness: a ceremony of honest dealers with more participants than
\* the threshold, all finished, whose public key is not the identity and
\* whose secret was reconstructed from shares other than the first t
C29_Witness ==
    /\ dkg.pc = "reconstructed"
    /\ dkg.byz = 0
    /\ AllDealt
    /\ dkg.n > dkg.t
    /\ dkg.finished = 1 .. dkg.n
    /\ dkg.sel[1].Index > dkg.t
    /\ dkg.rec.ok
    /\ ElSum([p \in 1 .. dkg.n |-> dkg.out[p].commitments[1]], 1 .. dkg.n) # 0
    /\ dkg.out[1].commitments # dkg.out[2].commitments

---------------------------------------------------------------------------
(* One participant's calls of VerifyCommitments and Finish on the lists it  *)
(* holds: the commitments of the n dealers and the shares they sent to it,  *)
(* some of the shares changed on the way.  n ranges up to the largest       *)
(* value of its type.                                                       *)

\* the commitments dealer i broadcasts and the share it sends to self, as
\* Start computes them from the coefficients a
DealtCommitments(seed, i, threshold) ==
    [k \in 1 .. threshold |->
        ScalarBaseMult(randomScalar(DealerTape(seed, i, threshold)[k]))]

DealtShare(seed, i, threshold, self) ==
    polynom(self, threshold,
            [k \in 1 .. threshold |->
                randomScalar(DealerTape(seed, i, threshold)[k])])

\* the dealers whose share may be changed
NearDealers == 1 .. (IF vc.n < MaxN THEN vc.n ELSE MaxN)

InitVC ==
    /\ \E n \in (2 .. MaxN) \cup {UInt8Max}, t \in 2 .. MaxN,
          seed \in 0 .. MaxSeed :
          /\ t <= n
          /\ \E self \in (1 .. (IF n < MaxN THEN n ELSE MaxN)) \cup {n} :
                vc = [pc |-> "args", n |-> n, t |-> t, self |-> self,
                      commitments |->
                          [i \in 1 .. n |-> DealtCommitments(seed, i, t)],
                      shares |->
                          [i \in 1 .. n |-> DealtShare(seed, i, t, self)],
                      changed |-> {},
                      order |-> <<>>,
                      fails |-> [panic |-> FALSE, hang |-> FALSE,
                                 fails |-> <<>>],
                      fin |-> NoFinal]
    /\ key = Nil
    /\ input = <<>>
    /\ sess = <<>>
    /\ sh = ShIdle
    /\ dkg = DkgIdle
    /\ tdh = TdhIdle
    /\ call = CallIdle

\* the share of dealer i arrives with another value
ChangeValue(i) ==
    /\ vc.pc = "args"
    /\ i \in NearDealers \ vc.changed
    /\ Cardinality(vc.changed) < 2
    /\ \E d \in 1 .. MaxDelta :
          vc' = [vc EXCEPT !.shares[i].Value = ScAdd(@, d),
                           !.changed = @ \cup {i}]
    /\ UNCHANGED <<key, input, sess, sh, dkg, tdh, call>>

\* the share of dealer i arrives with another index
ChangeIndex(i) ==
    /\ vc.pc = "args"
    /\ i \in NearDealers \ vc.changed
    /\ Cardinality(vc.changed) < 2
    /\ vc' = [vc EXCEPT !.shares[i].Index = U8(@ + 1),
                        !.changed = @ \cup {i}]
    /\ UNCHANGED <<key, input, sess, sh, dkg, tdh, call>>

\* VerifyCommitments(n, t, self, commitments, shares)
CallVerifyCommitments ==
    /\ vc.pc = "args"
    /\ vc' = [vc EXCEPT
                !.pc = "verified",
                !.fails = VerifyCommitments(vc.n, vc.t, vc.self,
                                            vc.commitments, vc.shares)]
    /\ UNCHANGED <<key, input, sess, sh, dkg, tdh, call>>

\* Finish(shares, self), a list of up to MaxN shares in any order
CallFinish ==
    /\ vc.pc = "args"
    /\ vc.n <= MaxN
    /\ \E order \in Perms(1 .. vc.n) :
          vc' = [vc EXCEPT
                   !.pc = "finished",
                   !.order = order,
                   !.fin = Finish([k \in 1 .. vc.n |-> vc.shares[order[k]]],
                                  vc.self)]
    /\ UNCHANGED <<key, input, sess, sh, dkg, tdh, call>>

NextVC ==
    \/ \E i \in 1 .. MaxN : ChangeValue(i)
    \/ \E i \in 1 .. MaxN : ChangeIndex(i)
    \/ CallVerifyCommitments
    \/ CallFinish

SpecVC == InitVC /\ [][NextVC]_vars

\* the peers other than self whose share fails VerifyCommitment
FailingPeers ==
    {i \in (1 .. vc.n) \ {vc.self} :
        VerifyCommitment(vc.n, vc.t, vc.self, i, vc.commitments[i],
                         vc.shares[i]) # "ok"}

\* C7: VerifyCommitments returns, in ascending order, exactly the peers
\* i in 1..n other than self whose share fails VerifyCommitment: it goes on
\* after a failure, never lists self, and returns the empty list exactly
\* when the shares of all other peers verify.
C7_FailsList ==
    vc.pc = "verified"
        => /\ ~vc.fails.panic
           /\ ~vc.fails.hang
           /\ vc.fails.fails = AscSeq(FailingPeers)

\* C9: Finish returns an error and no share exactly when some share of
\* the list has an index other than self; otherwise it returns the share
\* (self, sum of the values), whatever the order of the list and whether
\* or not the shares verify.
C9_Finish ==
    vc.pc = "finished"
        => /\ ~vc.fin.ok <=> \E i \in 1 .. vc.n : vc.shares[i].Index # vc.self
           /\ ~vc.fin.ok => vc.fin = NoFinal
           /\ vc.fin.ok =>
                 vc.fin.share =
                    Share(vc.self,
                          ScSum([i \in 1 .. vc.n |-> vc.shares[i].Value],
                                1 .. vc.n))

\* Finish succeeded on three or more shares that were not listed by
\* ascending dealer, one of them with a value that fails verification
C9_Witness ==
    /\ vc.pc = "finished"
    /\ vc.n >= 3
    /\ vc.order[1] > vc.order[2]
    /\ FailingPeers # {}
    /\ vc.fin.ok
    /\ vc.fin.share.Value # 0

---------------------------------------------------------------------------
(* A client's call of ThresholdCombine on a list of responses it received:  *)
(* parts of servers, strings of another length, strings with an element     *)
(* that is no canonical encoding; up to MaxN of them, or one more than the  *)
(* function accepts.                                                        *)

\* what a response may be
ResponseArgs ==
    {[len |-> PartBytes, index |-> i, val |-> v] : i \in 1 .. 2, v \in 0 .. Q}
    \cup {[len |-> PartBytes - 1, index |-> 1, val |-> 1]}

\* one response more than ThresholdCombine accepts
TooManyResponses == [k \in 1 .. (UInt8Max + 1) |-> PartMarshal(1, 1)]

InitCombine ==
    /\ \E responses \in UNION {[1 .. l -> ResponseArgs] : l \in 0 .. MaxN}
                           \cup {TooManyResponses} :
          call = [pc |-> "responses", responses |-> responses,
                  beta |-> BytesErr]
    /\ key = Nil
    /\ input = <<>>
    /\ sess = <<>>
    /\ sh = ShIdle
    /\ dkg = DkgIdle
    /\ vc = VcIdle
    /\ tdh = TdhIdle

\* ThresholdCombine(responses)
CallThresholdCombine ==
    /\ call.pc = "responses"
    /\ call' = [call EXCEPT !.pc = "combined",
                            !.beta = ThresholdCombine(call.responses)]
    /\ UNCHANGED <<key, input, sess, sh, dkg, vc, tdh>>

NextCombine == CallThresholdCombine

SpecCombine == InitCombine /\ [][NextCombine]_vars

\* a response decodes as a part
Decodes(resp) == resp.len = PartBytes /\ resp.val \in Elements

\* C11: ThresholdCombine fails on no parts, on more than 255 parts and
\* when some part does not decode, and then returns nothing; otherwise it
\* returns the encoding of the sum of the elements of all parts, the same
\* for every permutation of the list.
C11_Combine ==
    call.pc = "combined"
        => LET r == call.responses
           IN  /\ call.beta.ok
                     <=> /\ Len(r) >= 1
                         /\ Len(r) <= 255
                         /\ \A k \in DOMAIN r : Decodes(r[k])
               /\ ~call.beta.ok => call.beta = BytesErr
               /\ call.beta.ok
                     => call.beta.out
                           = ElementEncode(ElSum([k \in DOMAIN r |->
                                                     r[k].val], DOMAIN r))
               /\ Len(r) <= MaxN + 1
                     => \A order \in Perms(DOMAIN r) :
                           ThresholdCombine([k \in DOMAIN r |->
                                                r[order[k]]]) = call.beta

\* three parts or more, not sorted by index, combined to an element that
\* is not the identity
C11_Witness ==
    /\ call.pc = "combined"
    /\ Len(call.responses) >= 3
    /\ call.responses[1].index > call.responses[2].index
    /\ call.responses[2].val # call.responses[3].val
    /\ call.beta.ok
    /\ call.beta.out.val # 0

---------------------------------------------------------------------------
(* The threshold end-to-end path: the servers hold key shares and zero      *)
(* shares, either the Shamir shares of CreateShares(k, n, t) and            *)
(* CreateShares(0, n, t), or shares generated for the fixed set 1 .. n that *)
(* add up to k and to 0.  A client blinds its input, the servers of a set P *)
(* answer with Evaluate or with ThreeHashTDH, the client combines,          *)
(* unblinds and finalizes.                                                  *)

\* what rand.Read returns for the coefficients of one CreateShares call
CoeffTape(seed, which, threshold) ==
    [j \in 1 .. (threshold - 1) |->
        (seed * (j + which) + which + j) % (Q + 1)]

\* shares for the fixed set 1 .. n: the values of the first n - 1 servers
\* are free, the last one makes the sum come out as total
FixedSetShares(n, total, seed, which) ==
    LET free == [i \in 1 .. (n - 1) |->
                    ScalarFromUniformBytes(
                        (seed * (i + which) + which + i) % (Q + 1))]
    IN  [i \in 1 .. n |->
            Share(i, IF i < n THEN free[i]
                     ELSE ScSub(total, ScSum(free, 1 .. (n - 1))))]

TdhInputs == {<<>>, <<90>>}
TdhBlinds == {Bytes(ScalarBytes, v) : v \in 0 .. 2}
SsidArgs == {<<>>, <<7>>}

InitTDH ==
    /\ \E kind \in {"shamir", "fixed"}, k \in Scalars, n \in 1 .. MaxN,
          t \in 1 .. MaxN, seed \in 0 .. MaxSeed, x \in TdhInputs :
          /\ t <= n
          /\ tdh = [pc |-> "new", kind |-> kind, k |-> k, n |-> n, t |-> t,
                    seed |-> seed, x |-> x,
                    keys |-> <<>>, zeros |-> <<>>,
                    r |-> Nil, alpha |-> Nil,
                    peers |-> {}, mode |-> "none", ssid |-> <<>>,
                    parts |-> <<>>, beta |-> BytesErr, N |-> BytesErr,
                    out |-> [ok |-> FALSE, out |-> NoOutput]]
    /\ key = Nil
    /\ input = <<>>
    /\ sess = <<>>
    /\ sh = ShIdle
    /\ dkg = DkgIdle
    /\ vc = VcIdle
    /\ call = CallIdle

\* the servers receive their key shares and zero shares
TdhDeal ==
    /\ tdh.pc = "new"
    /\ LET ks == CreateShares(tdh.k, tdh.n, tdh.t,
                              CoeffTape(tdh.seed, 1, tdh.t))
           zs == CreateShares(0, tdh.n, tdh.t,
                              CoeffTape(tdh.seed, 2, tdh.t))
       IN  tdh' = IF tdh.kind = "fixed"
                  THEN [tdh EXCEPT
                          !.pc = "dealt",
                          !.keys = FixedSetShares(tdh.n, tdh.k, tdh.seed, 1),
                          !.zeros = FixedSetShares(tdh.n, 0, tdh.seed, 2)]
                  ELSE IF ks.ok /\ zs.ok
                  THEN [tdh EXCEPT !.pc = "dealt", !.keys = ks.shares,
                                   !.zeros = zs.shares]
                  ELSE [tdh EXCEPT !.pc = "rejected"]
    /\ UNCHANGED <<key, input, sess, sh, dkg, vc, call>>

\* the client calls Blind(x, blind)
TdhBlind ==
    /\ tdh.pc = "dealt"
    /\ \E blind \in TdhBlinds :
          LET b == Blind(tdh.x, blind, 0)
          IN  tdh' = IF b.ok
                     THEN [tdh EXCEPT !.pc = "blinded", !.r = b.r,
                                      !.alpha = b.alpha]
                     ELSE [tdh EXCEPT !.pc = "failed"]
    /\ UNCHANGED <<key, input, sess, sh, dkg, vc, call>>

\* the servers of P answer, all with Evaluate(share, alpha, P) or all with
\* ThreeHashTDH(share, zero_share, alpha, ssid); with Shamir shares P has
\* t members
TdhServe ==
    /\ tdh.pc = "blinded"
    /\ \E P \in (SUBSET (1 .. tdh.n)) \ {{}},
          mode \in {"Evaluate", "ThreeHashTDH"}, ssid \in SsidArgs :
          /\ tdh.kind = "shamir" => Cardinality(P) = tdh.t
          /\ tdh.kind = "fixed" => mode = "ThreeHashTDH"
          /\ LET e == [i \in P |->
                         IF mode = "Evaluate"
                         THEN ToprfEvaluate(tdh.keys[i], tdh.alpha,
                                            AscSeq(P))
                         ELSE ThreeHashTDH(tdh.keys[i], tdh.zeros[i],
                                           tdh.alpha, ssid)]
             IN  tdh' = IF \E i \in P : ~e[i].ok
                        THEN [tdh EXCEPT !.pc = "failed"]
                        ELSE [tdh EXCEPT
                                !.pc = "served", !.peers = P,
                                !.mode = mode,
                                !.ssid = IF mode = "Evaluate" THEN <<>>
                                         ELSE ssid,
                                !.parts = [k \in 1 .. Cardinality(P) |->
                                              e[AscSeq(P)[k]].out]]
    /\ UNCHANGED <<key, input, sess, sh, dkg, vc, call>>

\* the client calls ThresholdCombine on the answers, in any order
TdhCombine ==
    /\ tdh.pc = "served"
    /\ \E order \in Perms(DOMAIN tdh.parts) :
          LET c == ThresholdCombine([k \in DOMAIN order |->
                                        tdh.parts[order[k]]])
          IN  tdh' = IF c.ok
                     THEN [tdh EXCEPT !.pc = "combined", !.beta = c]
                     ELSE [tdh EXCEPT !.pc = "failed"]
    /\ UNCHANGED <<key, input, sess, sh, dkg, vc, call>>

\* the client calls Unblind(r, beta)
TdhUnblind ==
    /\ tdh.pc = "combined"
    /\ LET u == Unblind(tdh.r, tdh.beta.out)
       IN  tdh' = IF u.ok
                  THEN [tdh EXCEPT !.pc = "unblinded", !.N = u]
                  ELSE [tdh EXCEPT !.pc = "failed"]
    /\ UNCHANGED <<key, input, sess, sh, dkg, vc, call>>

\* the client calls Finalize(x, N)
TdhFinalize ==
    /\ tdh.pc = "unblinded"
    /\ tdh' = [tdh EXCEPT !.pc = "done",
                          !.out = Finalize(tdh.x, tdh.N.out)]
    /\ UNCHANGED <<key, input, sess, sh, dkg, vc, call>>

NextTDH ==
    \/ TdhDeal
    \/ TdhBlind
    \/ TdhServe
    \/ TdhCombine
    \/ TdhUnblind
    \/ TdhFinalize

SpecTDH == InitTDH /\ [][NextTDH]_vars

\* C12: ThreeHashTDH(k, z, alpha, ssid) returns the part with index k.Index
\* and element k.Value * alpha + z.Value * H, where H is the point mapped
\* from the hash of the 2-byte length of ssid, ssid and the raw alpha; a
\* second call with the same arguments returns the same part.
C12_ThreeHashTDH ==
    (tdh.pc = "served" /\ tdh.mode = "ThreeHashTDH") =>
        \A k \in DOMAIN tdh.parts :
            LET i == AscSeq(tdh.peers)[k]
                H == 1 + (Blake2b512(Len(tdh.ssid), tdh.ssid, tdh.alpha)
                          % (Q - 1))
            IN  /\ tdh.parts[k] =
                     [len |-> PartBytes, index |-> tdh.keys[i].Index,
                      val |-> (tdh.keys[i].Value * tdh.alpha.val
                               + tdh.zeros[i].Value * H) % Q]
                /\ ThreeHashTDH(tdh.keys[i], tdh.zeros[i], tdh.alpha,
                                tdh.ssid).out = tdh.parts[k]

\* C12 witness: a server with a non-zero zero share answered a non-identity
\* alpha under a non-empty ssid
C12_Witness ==
    /\ tdh.pc = "served"
    /\ tdh.mode = "ThreeHashTDH"
    /\ tdh.ssid # <<>>
    /\ tdh.alpha.val # 0
    /\ \E i \in tdh.peers : tdh.zeros[i].Value # 0 /\ tdh.keys[i].Value # 0

\* what the basic protocol returns for the key k on the client's alpha
BasicBeta == Evaluate(ScalarEncode(tdh.k), tdh.alpha)

\* what the basic protocol's client gets from Unblind and Finalize with the
\* blind of this session
BasicOutput == Finalize(tdh.x, Unblind(tdh.r, BasicBeta.out).out)

TdhCombined == tdh.pc \in {"combined", "unblinded", "done"}

C14_FixedPeerSet ==
    (tdh.kind = "fixed" /\ TdhCombined /\ tdh.peers = 1 .. tdh.n) =>
        /\ ScSum([i \in 1 .. tdh.n |-> tdh.keys[i].Value], 1 .. tdh.n)
             = tdh.k
        /\ ScSum([i \in 1 .. tdh.n |-> tdh.zeros[i].Value], 1 .. tdh.n) = 0
        /\ tdh.beta.out
             = ElementEncode(ScalarMult(tdh.k, DecodeVal(tdh.alpha)))

\* C14 witness: all servers of a set of at least two, one of them with a
\* non-zero zero share, answered a non-identity alpha and the client
\* combined the parts
C14_Witness ==
    /\ tdh.kind = "fixed"
    /\ tdh.pc = "combined"
    /\ tdh.n >= 2
    /\ tdh.peers = 1 .. tdh.n
    /\ tdh.alpha.val # 0
    /\ tdh.k # 0
    /\ \E i \in tdh.peers : tdh.zeros[i].Value # 0

---------------------------------------------------------------------------
(* Calls of CreateShares, Start and VerifyCommitments over the parameter    *)
(* pairs (n, threshold), the largest values of the 8-bit type included.     *)

NearMax == UInt8Max - 1

ParamN == (0 .. (MaxN + 1)) \cup {NearMax, UInt8Max}
ParamT == (0 .. (MaxN + 1)) \cup {UInt8Max}

\* what rand.Read returns for the coefficients of one call
ParamTape(seed, threshold) ==
    [k \in 1 .. threshold |-> (seed * k + k) % (Q + 1)]

NoResult ==
    [ok |-> FALSE, panic |-> FALSE, hang |-> FALSE, shares |-> <<>>]

InitParams ==
    /\ \E op \in {"CreateShares", "Start", "VerifyCommitments"},
          n \in ParamN, t \in ParamT, seed \in 0 .. MaxSeed,
          secret \in 1 .. 2 :
          /\ op = "VerifyCommitments" =>
                 2 <= t /\ t <= n /\ t <= MaxN + 1 /\ secret = 1
          /\ op = "Start" => secret = 1
          /\ call = [pc |-> "params", op |-> op, n |-> n, t |-> t,
                     seed |-> seed, secret |-> secret, res |-> NoResult]
    /\ key = Nil
    /\ input = <<>>
    /\ sess = <<>>
    /\ sh = ShIdle
    /\ dkg = DkgIdle
    /\ vc = VcIdle
    /\ tdh = TdhIdle

\* CreateShares(secret, n, t)
CallCreateShares ==
    /\ call.pc = "params"
    /\ call.op = "CreateShares"
    /\ LET r == CreateShares(call.secret, call.n, call.t,
                             ParamTape(call.seed, call.t))
       IN  call' = [call EXCEPT !.pc = "returned",
                                !.res = [ok |-> r.ok, panic |-> r.panic,
                                         hang |-> FALSE,
                                         shares |-> r.shares]]
    /\ UNCHANGED <<key, input, sess, sh, dkg, vc, tdh>>

\* Start(n, t)
CallStart ==
    /\ call.pc = "params"
    /\ call.op = "Start"
    /\ LET r == Start(call.n, call.t, ParamTape(call.seed, call.t))
       IN  call' = [call EXCEPT !.pc = "returned",
                                !.res = [ok |-> r.ok, panic |-> r.panic,
                                         hang |-> FALSE,
                                         shares |-> r.shares]]
    /\ UNCHANGED <<key, input, sess, sh, dkg, vc, tdh>>

\* VerifyCommitments(n, t, self, commitments, shares) by participant 1 on
\* what n dealers sent
CallVerifyN ==
    /\ call.pc = "params"
    /\ call.op = "VerifyCommitments"
    /\ LET r == VerifyCommitments(call.n, call.t, 1,
                    [i \in 1 .. call.n |->
                        DealtCommitments(call.seed, i, call.t)],
                    [i \in 1 .. call.n |->
                        DealtShare(call.seed, i, call.t, 1)])
       IN  call' = [call EXCEPT !.pc = "returned",
                                !.res = [ok |-> ~r.panic /\ ~r.hang,
                                         panic |-> r.panic,
                                         hang |-> r.hang,
                                         shares |-> <<>>]]
    /\ UNCHANGED <<key, input, sess, sh, dkg, vc, tdh>>

NextParams ==
    \/ CallCreateShares
    \/ CallStart
    \/ CallVerifyN

SpecParams == InitParams /\ [][NextParams]_vars

\* C15: CreateShares and Start fail, returning no shares, exactly when
\* (n, t) violates 2 <= t <= n <= 255, and succeed for every pair in the
\* range.
C15_ParameterRange ==
    (call.pc = "returned" /\ call.op \in {"CreateShares", "Start"}) =>
        /\ call.res.ok <=>
              (2 <= call.t /\ call.t <= call.n /\ call.n <= UInt8Max)
        /\ ~call.res.ok => call.res.shares = <<>>

\* C16: for every pair with 2 <= t <= n <= 255 the loops of CreateShares,
\* Start and VerifyCommitments take the counter values 1 .. n and end,
\* without an access outside the slice; CreateShares and Start return n
\* shares with the indices 1 .. n in order.
C16_Uint8Loops ==
    (call.pc = "returned" /\ 2 <= call.t /\ call.t <= call.n
        /\ call.n <= UInt8Max) =>
        /\ Uint8Counter(call.n) = [k \in 1 .. call.n |-> k]
        /\ ~call.res.panic
        /\ ~call.res.hang
        /\ call.op \in {"CreateShares", "Start"} =>
              /\ Len(call.res.shares) = call.n
              /\ \A i \in 1 .. call.n : call.res.shares[i].Index = i

---------------------------------------------------------------------------
(* Calls of toprf.Evaluate and InterpolateScalar with peer lists of any     *)
(* content: distinct indices, duplicates, the index 0.                      *)

PeerLists == UNION {[1 .. l -> 0 .. MaxN] : l \in 1 .. MaxN}

HasDuplicate(peers) ==
    \E i, j \in DOMAIN peers : i # j /\ peers[i] = peers[j]

HasZero(peers) == \E i \in DOMAIN peers : peers[i] = 0

InitPeers ==
    /\ \E op \in {"Evaluate", "InterpolateScalar"}, peers \in PeerLists,
          v \in 1 .. 2, a \in 1 .. 2 :
          /\ op = "InterpolateScalar" => a = 1
          /\ call = [pc |-> "peers", op |-> op, peers |-> peers,
                     value |-> v, alpha |-> ElementEncode(a),
                     ok |-> FALSE, out |-> Nil]
    /\ key = Nil
    /\ input = <<>>
    /\ sess = <<>>
    /\ sh = ShIdle
    /\ dkg = DkgIdle
    /\ vc = VcIdle
    /\ tdh = TdhIdle

\* Evaluate(share, alpha, peers) by the server named first in peers
CallEvaluatePeers ==
    /\ call.pc = "peers"
    /\ call.op = "Evaluate"
    /\ LET r == ToprfEvaluate(Share(call.peers[1], call.value), call.alpha,
                              call.peers)
       IN  call' = [call EXCEPT !.pc = "returned", !.ok = r.ok,
                                !.out = r.out]
    /\ UNCHANGED <<key, input, sess, sh, dkg, vc, tdh>>

\* InterpolateScalar(0, shares), one share per entry of peers
CallInterpolatePeers ==
    /\ call.pc = "peers"
    /\ call.op = "InterpolateScalar"
    /\ LET r == InterpolateScalar(0,
                    [k \in DOMAIN call.peers |->
                        Share(call.peers[k], ScAdd(call.value, k))])
       IN  call' = [call EXCEPT !.pc = "returned", !.ok = r.ok,
                                !.out = r.val]
    /\ UNCHANGED <<key, input, sess, sh, dkg, vc, tdh>>

NextPeers ==
    \/ CallEvaluatePeers
    \/ CallInterpolatePeers

SpecPeers == InitPeers /\ [][NextPeers]_vars

\* C17: Evaluate and InterpolateScalar fail whenever the peer indices hold
\* a duplicate or the value 0.
C17_InvalidPeers ==
    (call.pc = "returned" /\ (HasDuplicate(call.peers) \/ HasZero(call.peers)))
        => ~call.ok

---------------------------------------------------------------------------
(* Calls of Finalize and ThreeHashTDH with a variable-length field (the     *)
(* input x, the session identifier ssid) of a length around the largest a   *)
(* 16-bit prefix can hold.                                                  *)

MaxUint16 == 65535

FieldLengths ==
    (0 .. (MaxInputLen + 1)) \cup ((MaxUint16 - 1) .. (MaxUint16 + 2))

\* a field of l bytes, all of them b
Field(l, b) == [k \in 1 .. l |-> b]

InitFraming ==
    /\ \E op \in {"Finalize", "ThreeHashTDH"}, l \in FieldLengths,
          b \in 0 .. 1, el \in 0 .. Q, v \in 1 .. 2 :
          /\ op = "Finalize" => v = 1
          /\ call = [pc |-> "field", op |-> op, len |-> l, fill |-> b,
                     el |-> ElementEncode(el), value |-> v,
                     ok |-> FALSE, prefix |-> 0]
    /\ key = Nil
    /\ input = <<>>
    /\ sess = <<>>
    /\ sh = ShIdle
    /\ dkg = DkgIdle
    /\ vc = VcIdle
    /\ tdh = TdhIdle

\* Finalize(x, N) with x the field; prefix is the length prefix of x in
\* the hash input
CallFinalizeField ==
    /\ call.pc = "field"
    /\ call.op = "Finalize"
    /\ LET r == Finalize(Field(call.len, call.fill), call.el)
       IN  call' = [call EXCEPT !.pc = "returned", !.ok = r.ok,
                                !.prefix = IF r.ok THEN r.out[1] ELSE 0]
    /\ UNCHANGED <<key, input, sess, sh, dkg, vc, tdh>>

\* ThreeHashTDH(k, z, alpha, ssid) with ssid the field; prefix is the
\* length prefix of ssid in the hash input
CallThreeHashTDHField ==
    /\ call.pc = "field"
    /\ call.op = "ThreeHashTDH"
    /\ LET ssid == Field(call.len, call.fill)
           r == ThreeHashTDH(Share(1, call.value), Share(1, 1), call.el,
                             ssid)
       IN  call' = [call EXCEPT !.pc = "returned", !.ok = r.ok,
                                !.prefix = IF r.ok THEN lenBuf(ssid)
                                           ELSE 0]
    /\ UNCHANGED <<key, input, sess, sh, dkg, vc, tdh>>

NextFraming ==
    \/ CallFinalizeField
    \/ CallThreeHashTDHField

SpecFraming == InitFraming /\ [][NextFraming]_vars

\* C18: Finalize and ThreeHashTDH fail when the field is longer than 65535
\* bytes, and the 2-byte length prefix written into the hash input is the
\* true length of the field.
C18_LengthFraming ==
    call.pc = "returned" =>
        /\ call.len > MaxUint16 => ~call.ok
        /\ call.ok => call.prefix = call.len

---------------------------------------------------------------------------
(* Calls of the byte-level operations with scalar and element arguments of  *)
(* the right and of a wrong length, canonical and not.                      *)

ByteOps ==
    {"Blind", "Evaluate", "Unblind", "Finalize", "toprf.Evaluate",
     "ThreeHashTDH", "Share.UnmarshalBinary", "Part.UnmarshalBinary"}

\* ops with one scalar or element argument, ops whose argument is a
\* marshalled Share or Part
OneArgOps == {"Blind", "Finalize", "toprf.Evaluate", "ThreeHashTDH"}
DataOps == {"Share.UnmarshalBinary", "Part.UnmarshalBinary"}

\* a 31-, 32- or 33-byte string; the value Q stands for 32 bytes that are
\* not a canonical encoding
ByteArgs == {Bytes(l, v) : l \in (ScalarBytes - 1) .. (ScalarBytes + 1),
                           v \in 0 .. Q}

\* a 32-, 33- or 34-byte string read as index || value
DataArgs ==
    {[len |-> l, index |-> i, val |-> v] :
        l \in (ShareBytes - 1) .. (ShareBytes + 1), i \in 0 .. 1,
        v \in 0 .. Q}

InitBytes ==
    /\ \E op \in ByteOps, a \in ByteArgs \cup DataArgs, b \in ByteArgs :
          /\ (op \in DataOps) <=> (a \in DataArgs)
          /\ op \in OneArgOps \cup DataOps => b = ScalarEncode(1)
          /\ call = [pc |-> "bytes", op |-> op, a |-> a, b |-> b,
                     res |-> [ok |-> FALSE]]
    /\ key = Nil
    /\ input = <<>>
    /\ sess = <<>>
    /\ sh = ShIdle
    /\ dkg = DkgIdle
    /\ vc = VcIdle
    /\ tdh = TdhIdle

\* the call of the operation call.op on the arguments call.a, call.b
ByteCall(op, a, b) ==
    CASE op = "Blind" -> Blind(<<>>, a, 0)
      [] op = "Evaluate" -> Evaluate(a, b)
      [] op = "Unblind" -> Unblind(a, b)
      [] op = "Finalize" -> Finalize(<<>>, a)
      [] op = "toprf.Evaluate" -> ToprfEvaluate(Share(1, 1), a, <<1, 2>>)
      [] op = "ThreeHashTDH" ->
            ThreeHashTDH(Share(1, 1), Share(1, 1), a, <<>>)
      [] op = "Share.UnmarshalBinary" -> ShareUnmarshal(a)
      [] op = "Part.UnmarshalBinary" -> PartUnmarshal(a)

\* what each operation returns along with an error
ByteCallError(op, a) ==
    CASE op = "Blind" -> {OprfErr}
      [] op \in {"Evaluate", "Unblind"} -> {BytesErr}
      [] op = "Finalize" -> {[ok |-> FALSE, out |-> NoOutput]}
      [] op \in {"toprf.Evaluate", "ThreeHashTDH"} -> {PartErr}
      [] op = "Share.UnmarshalBinary" ->
            {[ok |-> FALSE, Index |-> i, Value |-> 0] : i \in {0, a.index}}
      [] op = "Part.UnmarshalBinary" ->
            {[ok |-> FALSE, Index |-> i, Element |-> 0] :
                i \in {0, a.index}}

CallBlindBytes ==
    /\ call.pc = "bytes" /\ call.op = "Blind"
    /\ call' = [call EXCEPT !.pc = "returned",
                            !.res = ByteCall("Blind", call.a, call.b)]
    /\ UNCHANGED <<key, input, sess, sh, dkg, vc, tdh>>

CallEvaluateBytes ==
    /\ call.pc = "bytes" /\ call.op = "Evaluate"
    /\ call' = [call EXCEPT !.pc = "returned",
                            !.res = ByteCall("Evaluate", call.a, call.b)]
    /\ UNCHANGED <<key, input, sess, sh, dkg, vc, tdh>>

CallUnblindBytes ==
    /\ call.pc = "bytes" /\ call.op = "Unblind"
    /\ call' = [call EXCEPT !.pc = "returned",
                            !.res = ByteCall("Unblind", call.a, call.b)]
    /\ UNCHANGED <<key, input, sess, sh, dkg, vc, tdh>>

CallFinalizeBytes ==
    /\ call.pc = "bytes" /\ call.op = "Finalize"
    /\ call' = [call EXCEPT !.pc = "returned",
                            !.res = ByteCall("Finalize", call.a, call.b)]
    /\ UNCHANGED <<key, input, sess, sh, dkg, vc, tdh>>

CallToprfEvaluateBytes ==
    /\ call.pc = "bytes" /\ call.op = "toprf.Evaluate"
    /\ call' = [call EXCEPT
                  !.pc = "returned",
                  !.res = ByteCall("toprf.Evaluate", call.a, call.b)]
    /\ UNCHANGED <<key, input, sess, sh, dkg, vc, tdh>>

CallThreeHashTDHBytes ==
    /\ call.pc = "bytes" /\ call.op = "ThreeHashTDH"
    /\ call' = [call EXCEPT
                  !.pc = "returned",
                  !.res = ByteCall("ThreeHashTDH", call.a, call.b)]
    /\ UNCHANGED <<key, input, sess, sh, dkg, vc, tdh>>

CallShareUnmarshal ==
    /\ call.pc = "bytes" /\ call.op = "Share.UnmarshalBinary"
    /\ call' = [call EXCEPT
                  !.pc = "returned",
                  !.res = ByteCall("Share.UnmarshalBinary", call.a, call.b)]
    /\ UNCHANGED <<key, input, sess, sh, dkg, vc, tdh>>

CallPartUnmarshal ==
    /\ call.pc = "bytes" /\ call.op = "Part.UnmarshalBinary"
    /\ call' = [call EXCEPT
                  !.pc = "returned",
                  !.res = ByteCall("Part.UnmarshalBinary", call.a, call.b)]
    /\ UNCHANGED <<key, input, sess, sh, dkg, vc, tdh>>

NextBytes ==
    \/ CallBlindBytes
    \/ CallEvaluateBytes
    \/ CallUnblindBytes
    \/ CallFinalizeBytes
    \/ CallToprfEvaluateBytes
    \/ CallThreeHashTDHBytes
    \/ CallShareUnmarshal
    \/ CallPartUnmarshal

SpecBytes == InitBytes /\ [][NextBytes]_vars

\* the argument has the wrong length or is not a canonical encoding
Rejected(op, arg) ==
    \/ arg.len # (IF op \in DataOps THEN ShareBytes ELSE ScalarBytes)
    \/ arg.val = Q

\* C19: each byte-level operation returns an error and no output whenever
\* a scalar or element argument has the wrong length or is not canonical.
C19_InputValidation ==
    (call.pc = "returned"
        /\ (Rejected(call.op, call.a)
              \/ (call.op \in {"Evaluate", "Unblind"}
                    /\ Rejected(call.op, call.b)))) =>
        /\ ~call.res.ok
        /\ call.res \in ByteCallError(call.op, call.a)

---------------------------------------------------------------------------
(* Calls of VerifyCommitments and VerifyCommitment with lists that may be   *)
(* shorter than n and t say: nc commitment vectors, ns shares, vectors of   *)
(* cl commitments.                                                          *)

InitShort ==
    /\ \E op \in {"VerifyCommitments", "VerifyCommitment"},
          n \in 2 .. MaxN, t \in 2 .. MaxN, seed \in 0 .. MaxSeed,
          self \in 1 .. MaxN, i \in 1 .. MaxN,
          nc \in 0 .. MaxN, ns \in 0 .. MaxN, cl \in 0 .. MaxN :
          /\ t <= n /\ self <= n /\ i <= n
          /\ nc <= n /\ ns <= n /\ cl <= t
          /\ op = "VerifyCommitments" => i = 1 /\ cl = t
          /\ op = "VerifyCommitment" => nc = n /\ ns = n
          /\ call = [pc |-> "lists", op |-> op, n |-> n, t |-> t,
                     self |-> self, i |-> i,
                     commitments |->
                        [d \in 1 .. nc |->
                            SubSeq(DealtCommitments(seed, d, t), 1, cl)],
                     shares |->
                        [d \in 1 .. ns |-> DealtShare(seed, d, t, self)],
                     panic |-> FALSE, fails |-> <<>>]
    /\ key = Nil
    /\ input = <<>>
    /\ sess = <<>>
    /\ sh = ShIdle
    /\ dkg = DkgIdle
    /\ vc = VcIdle
    /\ tdh = TdhIdle

\* VerifyCommitments(n, t, self, commitments, shares)
CallVerifyCommitmentsShort ==
    /\ call.pc = "lists"
    /\ call.op = "VerifyCommitments"
    /\ LET r == VerifyCommitments(call.n, call.t, call.self,
                                  call.commitments, call.shares)
       IN  call' = [call EXCEPT !.pc = "returned", !.panic = r.panic,
                                !.fails = r.fails]
    /\ UNCHANGED <<key, input, sess, sh, dkg, vc, tdh>>

\* VerifyCommitment(n, t, self, i, commitments[i-1], shares[i-1])
CallVerifyCommitmentShort ==
    /\ call.pc = "lists"
    /\ call.op = "VerifyCommitment"
    /\ LET r == VerifyCommitment(call.n, call.t, call.self, call.i,
                                 call.commitments[call.i],
                                 call.shares[call.i])
       IN  call' = [call EXCEPT
                      !.pc = "returned", !.panic = (r = "panic"),
                      !.fails = IF r = "fail" THEN <<call.i>> ELSE <<>>]
    /\ UNCHANGED <<key, input, sess, sh, dkg, vc, tdh>>

NextShort ==
    \/ CallVerifyCommitmentsShort
    \/ CallVerifyCommitmentShort

SpecShort == InitShort /\ [][NextShort]_vars

\* C20: every call returns, with its output or with one error, and none
\* aborts: VerifyCommitments with fewer than n commitment vectors or
\* shares and VerifyCommitment with fewer than t commitments do not fault
\* on an access outside the list.
C20_NeverAborts ==
    call.pc = "returned" => ~call.panic

---------------------------------------------------------------------------
(* The wire format of Share and Part: an object is marshalled and the bytes *)
(* are unmarshalled again, or received bytes are unmarshalled and the       *)
(* object, when accepted, is marshalled again.                              *)

\* indices an object or a byte string may carry
WireIndexes == {0, 1, MaxN, UInt8Max}

\* a Share or Part held by a caller; Val is its scalar or element
WireObjects == {[Index |-> i, Val |-> v] : i \in WireIndexes, v \in Scalars}

\* a received string of 32, 33 or 34 bytes read as index || value; the
\* value Q stands for 32 bytes that are not a canonical encoding
WireData ==
    {[len |-> l, index |-> i, val |-> v] :
        l \in (ShareBytes - 1) .. (ShareBytes + 1), i \in WireIndexes,
        v \in 0 .. Q}

NoObject == [ok |-> FALSE, Index |-> 0, Val |-> 0]
NoData == [len |-> 0, index |-> 0, val |-> 0]

InitWire ==
    /\ \E kind \in {"Share", "Part"} :
          \/ \E obj \in WireObjects :
                call = [pc |-> "object", kind |-> kind, obj |-> obj,
                        data |-> NoData, back |-> NoObject,
                        again |-> NoData]
          \/ \E data \in WireData :
                call = [pc |-> "bytes", kind |-> kind,
                        obj |-> [Index |-> 0, Val |-> 0],
                        data |-> data, back |-> NoObject, again |-> NoData]
    /\ key = Nil
    /\ input = <<>>
    /\ sess = <<>>
    /\ sh = ShIdle
    /\ dkg = DkgIdle
    /\ vc = VcIdle
    /\ tdh = TdhIdle

\* MarshalBinary of a Share or Part
WireMarshal(kind, o) ==
    IF kind = "Share" THEN ShareMarshal(Share(o.Index, o.Val))
    ELSE PartMarshal(o.Index, o.Val)

\* UnmarshalBinary into a zero Share or Part
WireUnmarshal(kind, data) ==
    IF kind = "Share"
    THEN LET u == ShareUnmarshal(data)
         IN  [ok |-> u.ok, Index |-> u.Index, Val |-> u.Value]
    ELSE LET u == PartUnmarshal(data)
         IN  [ok |-> u.ok, Index |-> u.Index, Val |-> u.Element]

\* the caller marshals its object
CallMarshalBinary ==
    /\ call.pc = "object"
    /\ call' = [call EXCEPT !.pc = "marshalled",
                            !.data = WireMarshal(call.kind, call.obj)]
    /\ UNCHANGED <<key, input, sess, sh, dkg, vc, tdh>>

\* the bytes, marshalled or received, are unmarshalled
CallUnmarshalBinary ==
    /\ call.pc \in {"marshalled", "bytes"}
    /\ call' = [call EXCEPT
                  !.pc = IF call.pc = "marshalled" THEN "returned"
                         ELSE "parsed",
                  !.back = WireUnmarshal(call.kind, call.data)]
    /\ UNCHANGED <<key, input, sess, sh, dkg, vc, tdh>>

\* the object accepted from received bytes is marshalled again
CallMarshalAgain ==
    /\ call.pc = "parsed"
    /\ call.back.ok
    /\ call' = [call EXCEPT !.pc = "reencoded",
                            !.again = WireMarshal(call.kind, call.back)]
    /\ UNCHANGED <<key, input, sess, sh, dkg, vc, tdh>>

NextWire ==
    \/ CallMarshalBinary
    \/ CallUnmarshalBinary
    \/ CallMarshalAgain

SpecWire == InitWire /\ [][NextWire]_vars

C22_IndexRange ==
    /\ call.pc \in {"marshalled", "reencoded"} =>
          call.data.index \in 1 .. UInt8Max
    /\ (call.pc = "parsed" /\ call.back.ok) =>
          call.back.Index \in 1 .. UInt8Max

---------------------------------------------------------------------------
(* Lagrange interpolation: InterpolateScalar at any point x over shares of *)
(* a known polynomial, and the coefficients coeff(i, P) of a peer list.    *)

\* the points x: 0, the share indices, a point that is no index, the
\* largest byte
InterpXs == (0 .. (MaxN + 1)) \cup {UInt8Max}

\* peer lists of distinct non-zero indices, in any order; as in the
\* source, where 255 is below the group order, distinct indices are
\* distinct scalars
CoeffPeers == InjSeqs(1 .. MaxN, 1 .. MaxN)

\* the polynomial f = secret + a[0] x + ... that CreateShares evaluates,
\* with its n shares
InitLagrange ==
    /\ \E secret \in Scalars, n \in 1 .. MaxN, t \in 1 .. MaxN :
          /\ t <= n
          /\ \E rnd \in [1 .. (t - 1) -> UniformBytes] :
                call = [pc |-> "dealt",
                        f |-> <<secret>> \o
                              [j \in 1 .. (t - 1) |->
                                  ScalarFromUniformBytes(rnd[j])],
                        shares |-> CreateShares(secret, n, t, rnd).shares]
    /\ key = Nil
    /\ input = <<>>
    /\ sess = <<>>
    /\ sh = ShIdle
    /\ dkg = DkgIdle
    /\ vc = VcIdle
    /\ tdh = TdhIdle

\* InterpolateScalar(x, sel) for a list sel of some of the shares, none
\* included, in any order; and for the same shares in ascending order
CallInterpolateScalar ==
    /\ call.pc = "dealt"
    /\ \E x \in InterpXs,
          idx \in InjSeqs(DOMAIN call.shares, 0 .. Len(call.shares)) :
          LET sel == [k \in DOMAIN idx |-> call.shares[idx[k]]]
              asc == AscSeq({idx[k] : k \in DOMAIN idx})
          IN  call' = [pc |-> "interpolated", f |-> call.f, x |-> x,
                       sel |-> sel,
                       res |-> InterpolateScalar(x, sel),
                       sorted |-> InterpolateScalar(x,
                                     [k \in DOMAIN asc |->
                                         call.shares[asc[k]]])]
    /\ UNCHANGED <<key, input, sess, sh, dkg, vc, tdh>>

\* coeff(i, peers) for every member i of a peer list, with the divisor
\* that lcoeff inverts
CallCoeff ==
    /\ call.pc = "dealt"
    /\ \E peers \in CoeffPeers :
          call' = [pc |-> "coefficients", peers |-> peers,
                   c |-> [k \in DOMAIN peers |-> coeff(peers[k], peers)],
                   divisor |->
                      [k \in DOMAIN peers |->
                          lcoeffLoop(peers[k], 0, peers, 1,
                                     scalarFromUint8(1),
                                     scalarFromUint8(1)).divisor]]
    /\ UNCHANGED <<key, input, sess, sh, dkg, vc, tdh>>

NextLagrange ==
    \/ CallInterpolateScalar
    \/ CallCoeff

SpecLagrange == InitLagrange /\ [][NextLagrange]_vars

\* the product of f over the set S, in the scalar field
RECURSIVE ScProd(_, _)
ScProd(f, S) ==
    IF S = {} THEN 1 % Q
    ELSE LET x == CHOOSE y \in S : TRUE
         IN  ScMul(f[x], ScProd(f, S \ {x}))

\* the Lagrange basis polynomial of index i over the index set P, at x:
\* the product over j in P, j # i, of (x - j) / (i - j)
Basis(i, x, P) ==
    ScProd([j \in P \ {i} |-> ScMul(ScSub(x % Q, j % Q),
                                    ScInvert(ScSub(i % Q, j % Q)))],
           P \ {i})

\* f(x) = f[1] + f[2] x + f[3] x^2 + ...
ValueAt(f, x) ==
    ScSum([k \in DOMAIN f |-> ScMul(f[k], ScPow(x % Q, k - 1))], DOMAIN f)

\* C26: InterpolateScalar(x, shares) is the sum of L_idx(x) * value over
\* the shares; over at least t shares of a polynomial f of degree at most
\* t - 1 it is f(x), for every x; at the index of one of the shares it is
\* that share's value; it is the same for every order of the shares; and
\* an empty list is rejected.
C26_InterpolateScalar ==
    call.pc = "interpolated" =>
        LET P == {call.sel[k].Index : k \in DOMAIN call.sel}
        IN  /\ call.res.ok <=> Len(call.sel) > 0
            /\ call.res.ok =>
                  /\ call.res.val =
                        ScSum([k \in DOMAIN call.sel |->
                                  ScMul(Basis(call.sel[k].Index, call.x, P),
                                        call.sel[k].Value)],
                              DOMAIN call.sel)
                  /\ Len(call.sel) >= Len(call.f) =>
                        call.res.val = ValueAt(call.f, call.x)
                  /\ \A k \in DOMAIN call.sel :
                        call.sel[k].Index = call.x =>
                            call.res.val = call.sel[k].Value
                  /\ call.res = call.sorted

\* C26 witness: shares of a polynomial of degree >= 1, not in ascending
\* order, interpolated at a point that is neither 0 nor one of their
\* indices, where f differs from the secret
C26_Witness ==
    /\ call.pc = "interpolated"
    /\ Len(call.f) >= 2
    /\ Len(call.sel) >= Len(call.f)
    /\ call.sel[1].Index > call.sel[2].Index
    /\ call.x % Q # 0
    /\ \A k \in DOMAIN call.sel : call.sel[k].Index # call.x
    /\ call.res.ok
    /\ call.res.val = ValueAt(call.f, call.x)
    /\ call.res.val # call.f[1]

\* C27: for a list P of distinct non-zero indices, coeff(i, P) is the
\* product over j in P, j # i, of j / (j - i) in the scalar field (for
\* P = {1, 2, 3}: 3, -3 and 1); the divisor lcoeff inverts is not zero;
\* and the coefficients of the members of P sum to 1.
C27_LagrangeCoefficients ==
    call.pc = "coefficients" =>
        LET P == {call.peers[k] : k \in DOMAIN call.peers}
        IN  /\ \A k \in DOMAIN call.peers :
                  /\ call.divisor[k] # 0
                  /\ call.c[k] =
                        ScProd([j \in P \ {call.peers[k]} |->
                                   ScMul(j % Q,
                                         ScInvert(ScSub(j % Q,
                                                     call.peers[k] % Q)))],
                               P \ {call.peers[k]})
            /\ ScSum(call.c, DOMAIN call.c) = 1 % Q
            /\ call.peers = <<1, 2, 3>> =>
                  call.c = <<3 % Q, (0 - 3) % Q, 1 % Q>>

\* C27 witness: the coefficients of the peer list 1, 2, 3
C27_Witness ==
    /\ call.pc = "coefficients"
    /\ call.peers = <<1, 2, 3>>
    /\ call.c = <<3, 2, 1>>

---------------------------------------------------------------------------
(* Memory: what the operations write.  mem is the memory of the callers:   *)
(* the values they pass by reference (slices, *Scalar, *Element).  Two     *)
(* callers run operations on it at the same time, one statement or loop    *)
(* iteration per step; fr is the memory a call has allocated itself.       *)

Callers == {1, 2}

FrameOps == {"ThresholdCombine", "VerifyCommitment", "Finish",
             "InterpolateScalar", "Evaluate", "CreateShares", "Blind"}

\* the threshold of the shares in memory, the member that verifies and
\* finishes, and the dealer whose commitments it verifies
FrameT == 2
FrameSelf == 1
FrameDealer == 2

\* what rand.Read returns to a CreateShares call
FrameTapes == {1, Q}

FrameIdle == [op |-> "none", pc |-> "idle"]

\* the memory of the callers: the n shares of secret + a1 x with their
\* commitment vector, the parts of all n servers in descending order of
\* index, two shares received for FrameSelf, a blind and an input
Memory(secret, a1, b) ==
    LET shares == CreateShares(secret, MaxN, FrameT, <<a1>>).shares
        alpha == ElementEncode(G)
        peers == [k \in 1 .. MaxN |-> k]
    IN  [secret |-> secret,
         shares |-> shares,
         commitments |-> <<ScalarBaseMult(secret), ScalarBaseMult(a1)>>,
         alpha |-> alpha,
         responses |-> [k \in 1 .. MaxN |->
                           ToprfEvaluate(shares[MaxN + 1 - k], alpha,
                                         peers).out],
         received |-> <<Share(FrameSelf, secret), Share(FrameSelf, a1)>>,
         input |-> <<90>>,
         blind |-> ScalarEncode(b)]

InitFrame ==
    /\ \E secret \in Scalars, a1 \in {1, 3}, b \in {1, 2} :
          call = [mem |-> Memory(secret, a1, b),
                  orig |-> Memory(secret, a1, b),
                  fr |-> [c \in Callers |-> FrameIdle]]
    /\ key = Nil
    /\ input = <<>>
    /\ sess = <<>>
    /\ sh = ShIdle
    /\ dkg = DkgIdle
    /\ vc = VcIdle
    /\ tdh = TdhIdle

\* caller c calls an operation: the frame of the call, before its first
\* statement
Enter(c) ==
    /\ call.fr[c].pc = "idle"
    /\ \E op \in FrameOps, x \in {0, 1}, rnd \in FrameTapes :
          call' = [call EXCEPT !.fr[c] =
                     [op |-> op, pc |-> "begin", k |-> 1, loc |-> <<>>,
                      acc |-> 0, res |-> "none",
                      x |-> IF op = "InterpolateScalar" THEN x ELSE 0,
                      rnd |-> IF op = "CreateShares" THEN rnd ELSE 0]]
    /\ UNCHANGED <<key, input, sess, sh, dkg, vc, tdh>>

\* ThresholdCombine, toprf.go 368-381: the length checks, and
\* parts[k].UnmarshalBinary(resp)  on  parts := make([]Part, len(responses))
CombineParse(mem, f) ==
    IF Len(mem.responses) = 0 \/ Len(mem.responses) > 255
    THEN [mem |-> mem, fr |-> [f EXCEPT !.pc = "done", !.res = BytesErr]]
    ELSE LET p == PartUnmarshal(mem.responses[f.k])
         IN  IF ~p.ok
             THEN [mem |-> mem,
                   fr |-> [f EXCEPT !.pc = "done", !.res = BytesErr]]
             ELSE [mem |-> mem,
                   fr |-> [f EXCEPT !.loc = Append(f.loc, p),
                                    !.k = f.k + 1,
                                    !.pc = IF f.k = Len(mem.responses)
                                           THEN "sort" ELSE "begin"]]

\* a sort that swaps the entries of the caller's list as well
CombineSort_CallerList(mem, f) ==
    [mem |-> [mem EXCEPT !.responses =
                 LET s == SortParts(f.loc, 1)
                 IN  [k \in DOMAIN s |-> PartMarshal(s[k].Index,
                                                     s[k].Element)]],
     fr |-> [f EXCEPT !.loc = SortParts(f.loc, 1), !.pc = "sum"]]

\* ThresholdCombine, toprf.go 383-390: the swaps  parts[i], parts[j] =
\* parts[j], parts[i]  are on the slice the call has made
CombineSort(mem, f) ==
    [mem |-> mem,
     fr |-> [f EXCEPT !.loc = SortParts(f.loc, 1), !.pc = "sum"]]

\* ThresholdCombine, toprf.go 392-398: result is a new element
CombineSum(mem, f) ==
    [mem |-> mem,
     fr |-> [f EXCEPT !.pc = "done",
                      !.res = [ok |-> TRUE,
                               out |-> ElementEncode(
                                           SumElements(f.loc, 1, 0))]]]

StepThresholdCombine(c) ==
    /\ call.fr[c].op = "ThresholdCombine"
    /\ call.fr[c].pc \in {"begin", "sort", "sum"}
    /\ LET f == call.fr[c]
           r == CASE f.pc = "begin" -> CombineParse(call.mem, f)
                  [] f.pc = "sort" -> CombineSort(call.mem, f)
                  [] f.pc = "sum" -> CombineSum(call.mem, f)
       IN  call' = [call EXCEPT !.mem = r.mem, !.fr[c] = r.fr]
    /\ UNCHANGED <<key, input, sess, sh, dkg, vc, tdh>>

\* VerifyCommitment, dkg.go 141-155:  v0 = g^(share.Value)  and
\* v1.Decode(commitments[0].Encode(nil)) , both new elements
VerifyBegin(mem, f) ==
    [mem |-> mem,
     fr |-> [f EXCEPT !.loc = <<ScalarBaseMult(mem.shares[FrameSelf].Value)>>,
                      !.acc = DecodeVal(ElementEncode(mem.commitments[1])),
                      !.pc = "loop"]]

\* VerifyCommitment, dkg.go 157-171: one iteration,  tmP  a new element
\* and  v1.Add(v1, tmP)
VerifyTerm(mem, f) ==
    IF ~(f.k < FrameT)
    THEN [mem |-> mem, fr |-> [f EXCEPT !.pc = "return"]]
    ELSE [mem |-> mem,
          fr |-> [f EXCEPT !.acc =
                     ElAdd(f.acc,
                           ScalarMult(jPow(scalarFromUint8(FrameSelf), f.k,
                                           scalarFromUint8(1)),
                                      mem.commitments[f.k + 1])),
                           !.k = f.k + 1]]

\* VerifyCommitment, dkg.go 173-180: the comparison of the encodings
VerifyCompare(mem, f) ==
    [mem |-> mem,
     fr |-> [f EXCEPT !.pc = "done",
                      !.res = IF ElementEncode(f.loc[1]) # ElementEncode(f.acc)
                              THEN "fail" ELSE "ok"]]

StepVerifyCommitment(c) ==
    /\ call.fr[c].op = "VerifyCommitment"
    /\ call.fr[c].pc \in {"begin", "loop", "return"}
    /\ LET f == call.fr[c]
           r == CASE f.pc = "begin" -> VerifyBegin(call.mem, f)
                  [] f.pc = "loop" -> VerifyTerm(call.mem, f)
                  [] f.pc = "return" -> VerifyCompare(call.mem, f)
       IN  call' = [call EXCEPT !.mem = r.mem, !.fr[c] = r.fr]
    /\ UNCHANGED <<key, input, sess, sh, dkg, vc, tdh>>

\* Finish, dkg.go 222-237: result is a new scalar;  one iteration of
\* result.Add(result, shares[i].Value) , and the return
FinishStep(mem, f) ==
    IF f.k > Len(mem.received)
    THEN [mem |-> mem,
          fr |-> [f EXCEPT !.pc = "done",
                           !.res = [ok |-> TRUE,
                                    share |-> Share(FrameSelf, f.acc)]]]
    ELSE IF mem.received[f.k].Index # FrameSelf
    THEN [mem |-> mem,
          fr |-> [f EXCEPT !.pc = "done",
                           !.res = [ok |-> FALSE, share |-> Share(0, 0)]]]
    ELSE [mem |-> mem,
          fr |-> [f EXCEPT !.acc = ScAdd(f.acc, mem.received[f.k].Value),
                           !.k = f.k + 1]]

StepFinish(c) ==
    /\ call.fr[c].op = "Finish"
    /\ call.fr[c].pc = "begin"
    /\ LET r == FinishStep(call.mem, call.fr[c])
       IN  call' = [call EXCEPT !.mem = r.mem, !.fr[c] = r.fr]
    /\ UNCHANGED <<key, input, sess, sh, dkg, vc, tdh>>

\* InterpolateScalar, toprf.go 240-252: result is a new scalar, indexes a
\* new slice filled from the shares
InterpolateBegin(mem, f) ==
    IF Len(mem.shares) = 0
    THEN [mem |-> mem,
          fr |-> [f EXCEPT !.pc = "done", !.res = [ok |-> FALSE, val |-> 0]]]
    ELSE [mem |-> mem,
          fr |-> [f EXCEPT !.loc = [k \in DOMAIN mem.shares |->
                                       mem.shares[k].Index],
                           !.pc = "loop"]]

\* InterpolateScalar, toprf.go 254-262: one iteration,  term  a new scalar
\* and  result.Add(result, term) , and the return
InterpolateTerm(mem, f) ==
    IF f.k > Len(mem.shares)
    THEN [mem |-> mem,
          fr |-> [f EXCEPT !.pc = "done",
                           !.res = [ok |-> TRUE, val |-> f.acc]]]
    ELSE [mem |-> mem,
          fr |-> [f EXCEPT !.acc =
                     ScAdd(f.acc,
                           ScMul(lcoeff(mem.shares[f.k].Index, f.x, f.loc),
                                 mem.shares[f.k].Value)),
                           !.k = f.k + 1]]

StepInterpolateScalar(c) ==
    /\ call.fr[c].op = "InterpolateScalar"
    /\ call.fr[c].pc \in {"begin", "loop"}
    /\ LET f == call.fr[c]
           r == IF f.pc = "begin" THEN InterpolateBegin(call.mem, f)
                ELSE InterpolateTerm(call.mem, f)
       IN  call' = [call EXCEPT !.mem = r.mem, !.fr[c] = r.fr]
    /\ UNCHANGED <<key, input, sess, sh, dkg, vc, tdh>>

\* toprf.Evaluate, toprf.go 332-362: adjustedKey, alpha and beta are new,
\* adjustedKey.Multiply(share.Value, c)  reads the share
EvaluateStep(mem, f) ==
    [mem |-> mem,
     fr |-> [f EXCEPT !.pc = "done",
                      !.res = ToprfEvaluate(mem.shares[FrameSelf], mem.alpha,
                                            [k \in 1 .. MaxN |-> k])]]

StepEvaluate(c) ==
    /\ call.fr[c].op = "Evaluate"
    /\ call.fr[c].pc = "begin"
    /\ LET r == EvaluateStep(call.mem, call.fr[c])
       IN  call' = [call EXCEPT !.mem = r.mem, !.fr[c] = r.fr]
    /\ UNCHANGED <<key, input, sess, sh, dkg, vc, tdh>>

\* CreateShares, toprf.go 284-294: the coefficients, new scalars
CreateSharesBegin(mem, f) ==
    [mem |-> mem,
     fr |-> [f EXCEPT !.acc = <<ScalarFromUniformBytes(f.rnd)>>,
                      !.pc = "loop"]]

\* CreateShares, toprf.go 296-324: one iteration; shares[i-1].Value is a
\* new scalar and  Value.Add(Value, secret)  reads the secret
CreateSharesShare(mem, f) ==
    IF f.k > MaxN
    THEN [mem |-> mem,
          fr |-> [f EXCEPT !.pc = "done",
                           !.res = [ok |-> TRUE, panic |-> FALSE,
                                    shares |-> f.loc]]]
    ELSE [mem |-> mem,
          fr |-> [f EXCEPT !.loc =
                     Append(f.loc,
                            Share(f.k,
                                  ShareValueLoop(f.acc, FrameT,
                                                 scalarFromUint8(f.k), 0,
                                                 ScAdd(0, mem.secret)))),
                           !.k = f.k + 1]]

StepCreateShares(c) ==
    /\ call.fr[c].op = "CreateShares"
    /\ call.fr[c].pc \in {"begin", "loop"}
    /\ LET f == call.fr[c]
           r == IF f.pc = "begin" THEN CreateSharesBegin(call.mem, f)
                ELSE CreateSharesShare(call.mem, f)
       IN  call' = [call EXCEPT !.mem = r.mem, !.fr[c] = r.fr]
    /\ UNCHANGED <<key, input, sess, sh, dkg, vc, tdh>>

\* Blind with a supplied blind, oprf.go 250-290:  r = make([]byte, 32);
\* copy(r, blind) : r is storage of its own ("r"), not the caller's blind
BlindStep(mem, f) ==
    [mem |-> mem,
     fr |-> [f EXCEPT !.pc = "done",
                      !.res = [out |-> Blind(mem.input, mem.blind, 0),
                               rStore |-> "r"]]]

StepBlind(c) ==
    /\ call.fr[c].op = "Blind"
    /\ call.fr[c].pc = "begin"
    /\ LET r == BlindStep(call.mem, call.fr[c])
       IN  call' = [call EXCEPT !.mem = r.mem, !.fr[c] = r.fr]
    /\ UNCHANGED <<key, input, sess, sh, dkg, vc, tdh>>

\* the caller overwrites the r it got from Blind with zeros; the bytes
\* written are those of the storage r is in
CallerWipesR(c) ==
    /\ call.fr[c].op = "Blind"
    /\ call.fr[c].pc = "done"
    /\ call' = [call EXCEPT
                   !.mem.blind = IF call.fr[c].res.rStore = "blind"
                                 THEN Bytes(ScalarBytes, 0) ELSE @,
                   !.fr[c].res.out.r = Bytes(ScalarBytes, 0),
                   !.fr[c].pc = "wiped"]
    /\ UNCHANGED <<key, input, sess, sh, dkg, vc, tdh>>

\* the call of caller c has returned and c goes on to its next call
Return(c) ==
    /\ call.fr[c].pc \in {"done", "wiped"}
    /\ call' = [call EXCEPT !.fr[c] = FrameIdle]
    /\ UNCHANGED <<key, input, sess, sh, dkg, vc, tdh>>

NextFrame ==
    \/ \E c \in Callers : Enter(c)
    \/ \E c \in Callers : StepThresholdCombine(c)
    \/ \E c \in Callers : StepVerifyCommitment(c)
    \/ \E c \in Callers : StepFinish(c)
    \/ \E c \in Callers : StepInterpolateScalar(c)
    \/ \E c \in Callers : StepEvaluate(c)
    \/ \E c \in Callers : StepCreateShares(c)
    \/ \E c \in Callers : StepBlind(c)
    \/ \E c \in Callers : CallerWipesR(c)
    \/ \E c \in Callers : Return(c)

SpecFrame == InitFrame /\ [][NextFrame]_vars

\* what the operation of frame f returns when it runs alone on memory m
Alone(m, f) ==
    CASE f.op = "ThresholdCombine" -> ThresholdCombine(m.responses)
      [] f.op = "VerifyCommitment" ->
            VerifyCommitment(MaxN, FrameT, FrameSelf, FrameDealer,
                             m.commitments, m.shares[FrameSelf])
      [] f.op = "Finish" -> Finish(m.received, FrameSelf)
      [] f.op = "InterpolateScalar" -> InterpolateScalar(f.x, m.shares)
      [] f.op = "Evaluate" ->
            ToprfEvaluate(m.shares[FrameSelf], m.alpha,
                          [k \in 1 .. MaxN |-> k])
      [] f.op = "CreateShares" ->
            CreateShares(m.secret, MaxN, FrameT, <<f.rnd>>)
      [] f.op = "Blind" ->
            [out |-> Blind(m.input, m.blind, 0), rStore |-> "r"]

\* C28: no operation writes to what its caller passed: the list of parts
\* keeps its order, the commitments, the shares, the secret and the blind
\* keep their values, the r of Blind is storage of its own holding the
\* blind; and every call, whatever runs at the same time on the same
\* arguments, returns what it returns when run alone.
C28_FrameEffect ==
    /\ call.mem.responses = call.orig.responses
    /\ call.mem.commitments = call.orig.commitments
    /\ call.mem.shares = call.orig.shares
    /\ call.mem.received = call.orig.received
    /\ call.mem.secret = call.orig.secret
    /\ call.mem.blind = call.orig.blind
    /\ call.mem = call.orig
    /\ \A c \in Callers :
          call.fr[c].pc = "done" =>
              /\ call.fr[c].res = Alone(call.orig, call.fr[c])
              /\ call.fr[c].op = "Blind" =>
                    /\ call.fr[c].res.rStore # "blind"
                    /\ call.fr[c].res.out.ok
                    /\ call.fr[c].res.out.r = call.orig.blind

\* C28 witness: a ThresholdCombine has returned its sum while another
\* call on the same, unsorted, list of parts has sorted its own copy and
\* not yet summed it
C28_Witness ==
    /\ call.fr[1].op = "ThresholdCombine"
    /\ call.fr[1].pc = "done"
    /\ call.fr[1].res.ok
    /\ call.fr[2].op = "ThresholdCombine"
    /\ call.fr[2].pc = "sum"
    /\ call.mem.responses[1].index > call.mem.responses[2].index
    /\ call.fr[2].loc[1].Index < call.fr[2].loc[2].Index

---------------------------------------------------------------------------
(* The coefficients in the memory of Start and of CreateShares: a is the   *)
(* slice of coefficients the call has filled so far, statement by          *)
(* statement up to the return.                                             *)

LifeOps == {"Start", "CreateShares"}

\* the number of coefficients the operation draws
NumCoeffs(op, threshold) ==
    IF op = "Start" THEN threshold ELSE threshold - 1

InitLife ==
    /\ \E op \in LifeOps, n \in 1 .. MaxN, t \in 0 .. MaxN :
          \E rnd \in [1 .. NumCoeffs(op, t) -> UniformBytes] :
             call = [op |-> op, pc |-> "entry", n |-> n, t |-> t,
                     rnd |-> rnd, a |-> <<>>, err |-> FALSE]
    /\ key = Nil
    /\ input = <<>>
    /\ sess = <<>>
    /\ sh = ShIdle
    /\ dkg = DkgIdle
    /\ vc = VcIdle
    /\ tdh = TdhIdle

\* the check of the parameters: dkg.go 99-101, toprf.go 277-282
LifeCheck ==
    /\ call.pc = "entry"
    /\ call' = IF \/ call.op = "Start" /\ (call.t < 2 \/ call.t > call.n)
                  \/ call.op = "CreateShares"
                        /\ (call.t < 1 \/ call.n < call.t)
               THEN [call EXCEPT !.pc = "returned", !.err = TRUE]
               ELSE [call EXCEPT !.pc = "draw"]
    /\ UNCHANGED <<key, input, sess, sh, dkg, vc, tdh>>

\* one iteration of the loop that fills the coefficients: dkg.go 104-110,
\* toprf.go 286-294; after the last one the call goes on to its outputs
LifeDraw ==
    /\ call.pc = "draw"
    /\ call' = IF Len(call.a) < NumCoeffs(call.op, call.t)
               THEN [call EXCEPT !.a =
                        Append(@, ScalarFromUniformBytes(
                                      call.rnd[Len(call.a) + 1]))]
               ELSE [call EXCEPT !.pc = "emit"]
    /\ UNCHANGED <<key, input, sess, sh, dkg, vc, tdh>>

\* rand.Read fails in an iteration:  return nil, nil, err
LifeRandFails ==
    /\ call.pc = "draw"
    /\ Len(call.a) < NumCoeffs(call.op, call.t)
    /\ call' = [call EXCEPT !.pc = "returned", !.err = TRUE]
    /\ UNCHANGED <<key, input, sess, sh, dkg, vc, tdh>>

\* the commitments and the shares are computed from a and returned:
\* dkg.go 112-124, toprf.go 296-324; no statement writes to a
LifeReturn ==
    /\ call.pc = "emit"
    /\ call' = [call EXCEPT !.pc = "returned"]
    /\ UNCHANGED <<key, input, sess, sh, dkg, vc, tdh>>

NextLife ==
    \/ LifeCheck
    \/ LifeDraw
    \/ LifeRandFails
    \/ LifeReturn

SpecLife == InitLife /\ [][NextLife]_vars

\* C30: when Start or CreateShares returns, with a result or with an
\* error, every coefficient in its memory has been overwritten with zero.
C30_SecretLifetime ==
    call.pc = "returned" => \A k \in DOMAIN call.a : call.a[k] = 0

============================================================================
